---- MODULE Spec2Model ----
(***************************************************************************)
(* LcStudy: the precomputed-game repository                                *)
(* (repositories/precomputed_repository.py) and the game progression       *)
(* service (services/game_service.py) as a state machine.                  *)
(*                                                                         *)
(* The rules library (python-chess) is abstracted to a small game: every   *)
(* move code belongs to one side, a side's codes are legal when that side  *)
(* is to move on a board that is not over, and one code per side mates.    *)
(***************************************************************************)
EXTENDS Integers, Sequences, FiniteSets, TLC

VARIABLES files, games, paths, ids, rr_index, loaded_paths,
          sessions, last, consumed, assigns, appeared, lock, threads,
          pending, reader,
          store_sessions, access_times, touched, now,
          history_file, writers,
          gen, cli, grader

vars == <<files, games, paths, ids, rr_index, loaded_paths,
          sessions, last, consumed, assigns, appeared, lock, threads,
          pending, reader,
          store_sessions, access_times, touched, now,
          history_file, writers,
          gen, cli, grader>>

repoVars == <<games, paths, ids, rr_index, loaded_paths>>

ghostVars == <<consumed, assigns, appeared>>

\* the repository's lock and the threads that are inside one of its calls
threadVars == <<lock, threads>>

\* the session store (repositories/session_repository.py), the clock it
\* reads, and the time of each session's last save_session/get_session
storeVars == <<store_sessions, access_times, touched, now>>

\* everything outside the precomputed-game repository and the game service,
\* except the record of the rotation: the reader thread, the session store,
\* the history file and the threads inside save_game, the seed generator
\* process, the process started by `lcstudy up`, and the request handler
\* that holds a session between get_session and save_session
otherVars == <<reader, storeVars, history_file, writers, gen, cli, grader>>

auxVars == <<pending, otherVars>>

(***************************************************************************)
(* Bounds                                                                  *)
(***************************************************************************)
\* assign_game() calls (caps _rr_index)
MaxAssign == 3

\* sessions created by create_session
MaxSessions == 2

\* threads calling the repository at the same time
MaxThreads == 2

\* cap on current_move_attempts where the code lets it grow without limit
MaxAttempts == 10

\* cap on the length of a board's move stack
MaxStack == 3

(***************************************************************************)
(* Values                                                                  *)
(***************************************************************************)
None == "None"

WHITE == "white"

BLACK == "black"

\* move codes of the abstract game: one quiet and one mating code per side
WhiteMoves == {"e2e4", "d1h5"}

BlackMoves == {"e7e5", "d8h4"}

MateMoves == {"d1h5", "d8h4"}

UciMoves == WhiteMoves \cup BlackMoves

(***************************************************************************)
(* Script files.  A path is <<directory, stem>>; the content of a file is  *)
(* what chess.pgn.read_game and the header inspection of _load_path get    *)
(* from it: the mainline as UCI codes and the two player headers.          *)
(***************************************************************************)
SeedsDir == "seeds"

UserDir == "user"

\* sorted(seeds.glob("*.pgn")) followed by sorted(user.glob("*.pgn"))
ScanOrder == << <<SeedsDir, "s1">>, <<UserDir, "s1">>, <<UserDir, "u1">>,
                <<UserDir, "u2">>, <<UserDir, "u3">> >>

Catalog == {ScanOrder[i] : i \in 1..Len(ScanOrder)}

Stems == {p[2] : p \in Catalog}

\* mainline of the game stored in the file, as UCI codes
FileMoves(p) ==
    CASE p = <<SeedsDir, "s1">> -> <<"e2e4", "e7e5", "d1h5">>
      [] p = <<UserDir, "s1">>  -> <<"e2e4">>
      [] p = <<UserDir, "u1">>  -> <<"e2e4", "e7e5", "d1h5">>
      [] p = <<UserDir, "u2">>  -> <<"e2e4", "e7e5">>
      [] OTHER                  -> << >>

\* the White / Black headers of the file
FileWhite(p) ==
    CASE p = <<SeedsDir, "s1">> -> "Leela (PLAYER)"
      [] p = <<UserDir, "s1">>  -> "Maia 1500"
      [] p = <<UserDir, "u1">>  -> "Maia 1500"
      [] p = <<UserDir, "u2">>  -> "Leela"
      [] OTHER                  -> "Leela (PLAYER)"

FileBlack(p) ==
    CASE p = <<SeedsDir, "s1">> -> "Maia 1500"
      [] p = <<UserDir, "s1">>  -> "Leela (PLAYER)"
      [] p = <<UserDir, "u1">>  -> "Leela"
      [] p = <<UserDir, "u2">>  -> "Maia 1100"
      [] OTHER                  -> "Maia 1500"

HasPlayerMarker(h) == h = "Leela (PLAYER)"

MentionsLeela(h) == h \in {"Leela (PLAYER)", "Leela"}

\* header inspection of _load_path
leela_color_of(p) ==
    IF HasPlayerMarker(FileWhite(p)) THEN WHITE
    ELSE IF HasPlayerMarker(FileBlack(p)) THEN BLACK
    ELSE IF MentionsLeela(FileWhite(p)) THEN WHITE ELSE BLACK

PrecomputedGame(p) ==
    [id |-> p[2], moves_uci |-> FileMoves(p), leela_color |-> leela_color_of(p)]

(***************************************************************************)
(* PrecomputedRepository                                                   *)
(***************************************************************************)
\* the four fields _load_path writes, as one record
RepoOf(g, pa, i, lp) == [games |-> g, paths |-> pa, ids |-> i, loaded_paths |-> lp]

\* f extended (or overwritten) at key k
Put(f, k, v) == [x \in (DOMAIN f) \cup {k} |-> IF x = k THEN v ELSE f[x]]

\* f without key k
Drop(f, k) == [x \in (DOMAIN f) \ {k} |-> f[x]]

\* s without its first occurrence of x (list.remove)
RECURSIVE RemoveFirst(_, _)
RemoveFirst(s, x) ==
    IF s = << >> THEN << >>
    ELSE IF Head(s) = x THEN Tail(s)
    ELSE <<Head(s)>> \o RemoveFirst(Tail(s), x)

\* _load_path without the `gid not in self._games` test
load_path_always_adds(r, p) ==
    IF FileMoves(p) = << >> THEN r
    ELSE RepoOf(Put(r.games, p[2], PrecomputedGame(p)),
                Put(r.paths, p[2], p),
                Append(r.ids, p[2]),
                r.loaded_paths \cup {p})

\* _load_path(p): a file without moves is skipped and not recorded as loaded;
\* a stem already indexed is recorded as loaded and not indexed again
load_path(r, p) ==
    IF FileMoves(p) = << >> THEN r
    ELSE IF p[2] \notin DOMAIN r.games
         THEN RepoOf(Put(r.games, p[2], PrecomputedGame(p)),
                     Put(r.paths, p[2], p),
                     Append(r.ids, p[2]),
                     r.loaded_paths \cup {p})
         ELSE [r EXCEPT !.loaded_paths = @ \cup {p}]

\* load_from without the _loaded_paths test: every scan parses every file again
RECURSIVE load_from_rescan(_, _, _)
load_from_rescan(r, fs, i) ==
    IF i > Len(ScanOrder) THEN r
    ELSE LET p == ScanOrder[i]
         IN  load_from_rescan(IF p \in fs THEN load_path(r, p) ELSE r, fs, i + 1)

\* the scan, over the paths of ScanOrder from position i on
RECURSIVE load_from(_, _, _)
load_from(r, fs, i) ==
    IF i > Len(ScanOrder) THEN r
    ELSE LET p == ScanOrder[i]
         IN  load_from(IF p \in fs /\ p \notin r.loaded_paths
                       THEN load_path(r, p) ELSE r,
                       fs, i + 1)

load_all(r, fs) == load_from(r, fs, 1)

\* the repository right after __init__ over the files fs
NewRepo(fs) == load_all(RepoOf(<< >>, << >>, << >>, {}), fs)

CurRepo == RepoOf(games, paths, ids, loaded_paths)

has_games == ids # << >>

\* assign_pick with the cursor read one too far
assign_pick_skip(r, rr) ==
    IF r.ids = << >> THEN None
    ELSE r.ids[((rr + 1) % Len(r.ids)) + 1]

\* assign_game, on the repository r already rescanned: the returned id
assign_pick(r, rr) ==
    IF r.ids = << >> THEN None
    ELSE r.ids[(rr % Len(r.ids)) + 1]

get_expected(g, gid, ply_index) ==
    IF gid \notin DOMAIN g THEN None
    ELSE IF 0 <= ply_index /\ ply_index < Len(g[gid].moves_uci)
         THEN g[gid].moves_uci[ply_index + 1]
         ELSE None

get_reply(g, gid, ply_index) ==
    IF gid \notin DOMAIN g THEN None
    ELSE IF 0 <= ply_index + 1 /\ ply_index + 1 < Len(g[gid].moves_uci)
         THEN g[gid].moves_uci[ply_index + 2]
         ELSE None

game_length(g, gid) == IF gid \in DOMAIN g THEN Len(g[gid].moves_uci) ELSE 0

get_leela_color(g, gid) == IF gid \in DOMAIN g THEN g[gid].leela_color ELSE None

\* consume_game that forgets the available list
consume_repo_keeps_id(r, gid) ==
    IF gid \notin DOMAIN r.games THEN r
    ELSE RepoOf(Drop(r.games, gid),
                IF gid \in DOMAIN r.paths THEN Drop(r.paths, gid) ELSE r.paths,
                r.ids,
                r.loaded_paths)

\* consume_game: the index after the call
consume_repo(r, gid) ==
    IF gid \notin DOMAIN r.games THEN r
    ELSE RepoOf(Drop(r.games, gid),
                IF gid \in DOMAIN r.paths THEN Drop(r.paths, gid) ELSE r.paths,
                RemoveFirst(r.ids, gid),
                r.loaded_paths)

\* consume_game that unlinks the file wherever it lies
consume_files_any_dir(r, fs, gid) ==
    IF gid \in DOMAIN r.games /\ gid \in DOMAIN r.paths /\ r.paths[gid] \in fs
    THEN {fs \ {r.paths[gid]}, fs}
    ELSE {fs}

\* consume_game: the files that may be on disk after the call (unlink is
\* attempted for a file under the user directory only, and may fail)
consume_files(r, fs, gid) ==
    IF gid \in DOMAIN r.games /\ gid \in DOMAIN r.paths
       /\ r.paths[gid] \in fs /\ r.paths[gid][1] = UserDir
    THEN {fs \ {r.paths[gid]}, fs}
    ELSE {fs}

(***************************************************************************)
(* The board (chess.Board), reduced to what the service reads: the move    *)
(* stack, the side to move and whether the game is over.                   *)
(***************************************************************************)
Other(c) == IF c = WHITE THEN BLACK ELSE WHITE

StartBoard == [stack |-> << >>, turn |-> WHITE, over |-> FALSE]

\* a position text the rules library accepts, with Black to move
FenBlackToMove == "fen-black-to-move"

\* a position text the rules library accepts, with White to move and mated
FenMated == "fen-mated"

\* a position text the rules library rejects (ValueError)
FenInvalid == "fen-invalid"

\* chess.Board() / chess.Board(custom_fen) with the fallback of create_session
BoardFromFen(custom_fen) ==
    IF custom_fen = FenBlackToMove
    THEN [stack |-> << >>, turn |-> BLACK, over |-> FALSE]
    ELSE IF custom_fen = FenMated
    THEN [stack |-> << >>, turn |-> WHITE, over |-> TRUE]
    ELSE StartBoard

\* a move code chess.Move.from_uci rejects (ValueError)
BadUci == "e9e4"

\* a parser that accepts every text
from_uci_accepts_all(move_str) == TRUE

\* chess.Move.from_uci(move_str) returns a move (no ValueError)
from_uci_ok(move_str) == move_str \in UciMoves

legal_moves(b) ==
    IF b.over THEN {}
    ELSE IF b.turn = WHITE THEN WhiteMoves ELSE BlackMoves

is_game_over(b) == b.over

\* board.push(m): push does not check legality.  A legal move is applied.  For
\* a move that is not legal the library either fails its pseudo-legality
\* assertion after the move was put on the stack, or moves whatever stands on
\* the source square and passes the turn, leaving a position of either kind.
push(b, m) ==
    IF m \in legal_moves(b)
    THEN {[raised |-> FALSE,
           board |-> [stack |-> Append(b.stack, m), turn |-> Other(b.turn),
                      over |-> m \in MateMoves]]}
    ELSE {[raised |-> TRUE, board |-> [b EXCEPT !.stack = Append(@, m)]]}
         \cup {[raised |-> FALSE,
                board |-> [stack |-> Append(b.stack, m), turn |-> Other(b.turn),
                           over |-> o]] : o \in BOOLEAN}

(***************************************************************************)
(* Sessions (domain/models.py GameSession, with the two attributes the     *)
(* service attaches to it)                                                 *)
(***************************************************************************)
PLAYING == "playing"

FINISHED == "finished"

\* precomputed_game_id of a session the attribute was never set on
Unset == "unset"

\* precomputed_ply_index of a session the attribute was never set on
UnsetPly == 0 - 1

\* player_color or chess.WHITE: chess.BLACK is False, so only White is kept
color_or_white(player_color) == IF player_color = WHITE THEN player_color ELSE WHITE

\* the session record with the board never turned
GameSession_unflipped(board, color) ==
    [board |-> board, status |-> PLAYING, player_color |-> color,
     score_total |-> 0, move_index |-> 0, flip |-> FALSE,
     current_move_attempts |-> 0,
     precomputed_game_id |-> Unset, precomputed_ply_index |-> UnsetPly]

\* GameSession(...) as create_session builds it: flip is computed from the
\* colour the session ends up with
GameSession(board, color) ==
    [board |-> board, status |-> PLAYING, player_color |-> color,
     score_total |-> 0, move_index |-> 0, flip |-> (color = BLACK),
     current_move_attempts |-> 0,
     precomputed_game_id |-> Unset, precomputed_ply_index |-> UnsetPly]

\* MoveResult, and the value of `last.result` when a call returns none
MoveResult(player_move, correct, message, leela_move, attempts) ==
    [player_move |-> player_move, correct |-> correct, message |-> message,
     leela_move |-> leela_move, maia_move |-> None, attempts |-> attempts]

NoResult == MoveResult(None, FALSE, None, None, 0)

\* the record of the latest call: the operation, the session it was made on,
\* how it ended (OK or the exception it raised), what it returned and how
\* often it saved the session
OK == "ok"

Call(op, sid, outcome, ret, result, saves) ==
    [op |-> op, sid |-> sid, outcome |-> outcome, ret |-> ret,
     result |-> result, saves |-> saves]

\* a call that raised: ret carries the exception's message
Raised(op, sid, exception, message) == Call(op, sid, exception, message, NoResult, 0)

NoCall == Call(None, 0, OK, None, NoResult, 0)

SessionIds == 1..Len(sessions)

(***************************************************************************)
(* The record of the rotation: for each id assign_game has returned, the   *)
(* ids that have been in self._ids ever since and have not been returned   *)
(* since.  It is kept only in runs that start with it switched on.         *)
(***************************************************************************)
NoRotation == [on |-> FALSE, since |-> << >>]

\* the ids in the list i
ListedSet(i) == {i[k] : k \in 1..Len(i)}

\* assign_game has returned gid, the list being i afterwards
rotation_after_assign(pend, gid, i) ==
    IF ~pend.on \/ gid = None THEN pend
    ELSE [pend EXCEPT !.since =
             [x \in (DOMAIN pend.since) \cup {gid} |->
                 IF x = gid THEN ListedSet(i) \ {gid}
                 ELSE (pend.since[x] \ {gid}) \cap ListedSet(i)]]

\* the list has become i without a call of assign_game
rotation_after_change(pend, i) ==
    IF ~pend.on THEN pend
    ELSE [pend EXCEPT !.since =
             [x \in DOMAIN pend.since |-> pend.since[x] \cap ListedSet(i)]]

(***************************************************************************)
(* Repository calls made directly (the repository's own interface)         *)
(***************************************************************************)
SetRepo(r) ==
    /\ games' = r.games
    /\ paths' = r.paths
    /\ ids' = r.ids
    /\ loaded_paths' = r.loaded_paths

\* assign_game(): rescan, pick round-robin, advance the cursor
AssignGame ==
    /\ assigns < MaxAssign
    /\ LET r == load_all(CurRepo, files)
           gid == assign_pick(r, rr_index)
       IN  /\ SetRepo(r)
           /\ rr_index' = IF gid = None THEN rr_index ELSE rr_index + 1
           /\ assigns' = assigns + 1
           /\ last' = Call("assign_game", 0, OK, gid, NoResult, 0)
           /\ pending' = rotation_after_assign(pending, gid, r.ids)
    /\ UNCHANGED <<files, sessions, consumed, appeared, threadVars, otherVars>>

\* consume_game(gid) not carried out
ConsumeEffect_skipped(gid) == UNCHANGED <<files, repoVars, consumed>>

\* the effect of consume_game(gid) on the repository, the disk and the
\* record of consumed ids
ConsumeEffect(gid) ==
    /\ SetRepo(consume_repo(CurRepo, gid))
    /\ files' \in consume_files(CurRepo, files, gid)
    /\ consumed' = IF gid \in DOMAIN games THEN consumed \cup {gid} ELSE consumed
    /\ UNCHANGED rr_index

\* consume_game(gid)
ConsumeGame(gid) ==
    /\ ConsumeEffect(gid)
    /\ last' = Call("consume_game", 0, OK,
                    IF gid \in DOMAIN games THEN "True" ELSE "False", NoResult, 0)
    /\ pending' = rotation_after_change(pending, consume_repo(CurRepo, gid).ids)
    /\ UNCHANGED <<sessions, assigns, appeared, threadVars, otherVars>>

\* the seed generator writes a new file into the user directory; its name
\* (time stamp and random suffix) is one no file has had before
WriteSeed(p) ==
    /\ p[1] = UserDir
    /\ \A q \in files \cup loaded_paths : q[2] # p[2]
    /\ files' = files \cup {p}
    /\ appeared' = appeared \cup {p}
    /\ last' = Call("write_seed", 0, OK, None, NoResult, 0)
    /\ UNCHANGED <<repoVars, sessions, consumed, assigns, threadVars, auxVars>>

\* the threads; one that is in no call of the repository
Threads == 1..MaxThreads

Idle == [pc |-> "idle", gid |-> None, idx |-> 0]

\* the longest script, for the ply arguments of get_expected
MaxScriptLen == 3

\* no reader call is under way
IdleReader == [pc |-> "idle", op |-> None, gid |-> None, ply |-> 0,
               known |-> << >>, g |-> << >>]

\* an empty session store at time 0
StoreEmpty ==
    /\ store_sessions = << >>
    /\ access_times = << >>
    /\ touched = << >>
    /\ now = 0

\* the threads that call save_game; one that is in no call, holding nothing
Writers == 1..MaxThreads

IdleWriter == [pc |-> "idle", entry |-> None, history |-> << >>]

\* no history file on disk, nobody inside save_game
NoHistory ==
    /\ history_file = [kind |-> "missing", entries |-> << >>]
    /\ writers = [t \in Writers |-> IdleWriter]

\* no generator process
GenOff == [pc |-> "off", max_seeds |-> 0, start |-> 0]

\* `lcstudy up` not started: environment empty, settings singleton unset
\* (_settings is None), web-app module not imported
CliOff ==
    [pc |-> "off", no_seeds |-> FALSE, environ |-> << >>,
     settings |-> [read |-> FALSE, enable_seed_generator |-> TRUE],
     webapp |-> [imported |-> FALSE, enable_seed_generator |-> TRUE]]

\* no request handler holds a session
IdleGrader == [pc |-> "idle", session |-> [id |-> None, data |-> None]]

\* the repository constructed over the directory contents fs, nothing called
InitBase(fs) ==
    /\ files = fs
    /\ LET r == NewRepo(files)
       IN  /\ games = r.games
           /\ paths = r.paths
           /\ ids = r.ids
           /\ loaded_paths = r.loaded_paths
    /\ rr_index = 0
    /\ sessions = << >>
    /\ last = NoCall
    /\ consumed = {}
    /\ assigns = 0
    /\ appeared = {}
    /\ lock = 0
    /\ threads = [t \in Threads |-> Idle]

\* the repository and the service alone: every other component at rest
InitOver(fs) ==
    /\ InitBase(fs)
    /\ pending = NoRotation
    /\ reader = IdleReader
    /\ StoreEmpty
    /\ NoHistory
    /\ gen = GenOff
    /\ cli = CliOff
    /\ grader = IdleGrader

InitRepo == \E fs \in SUBSET Catalog : InitOver(fs)

NextRepo ==
    \/ AssignGame
    \/ \E gid \in Stems : ConsumeGame(gid)
    \/ \E p \in Catalog : WriteSeed(p)

SpecRepo == InitRepo /\ [][NextRepo]_vars

(***************************************************************************)
(* The repository called from several threads.  assign_game and            *)
(* consume_game run statement by statement; each takes self._lock on       *)
(* entry (`with self._lock`) and gives it back when it returns or raises.  *)
(* A thread's record holds its position, the id it was called with or has  *)
(* selected, and the index it computed.                                    *)
(***************************************************************************)
\* a lock that never keeps anyone out
lock_free_always(l) == TRUE

\* self._lock can be taken
lock_free(l) == l = 0

\* thread t moves to position pc
Goto(t, pc) == threads' = [threads EXCEPT ![t].pc = pc]

\* thread t leaves its call: the lock is given back and the outcome recorded
Leave(t, outcome) ==
    /\ lock' = 0
    /\ threads' = [threads EXCEPT ![t] = Idle]
    /\ last' = outcome

\* positions inside `with self._lock`
InCritical(t) == threads[t].pc \notin {"idle", "assign_lock", "consume_lock"}

\* a thread calls assign_game()
CallAssign(t) ==
    /\ threads[t].pc = "idle"
    /\ assigns < MaxAssign
    /\ assigns' = assigns + 1
    /\ Goto(t, "assign_lock")
    /\ UNCHANGED <<files, repoVars, sessions, last, consumed, appeared, lock,
                   auxVars>>

\* a thread calls consume_game(gid)
CallConsume(t, gid) ==
    /\ threads[t].pc = "idle"
    /\ threads' = [threads EXCEPT ![t] = [pc |-> "consume_lock", gid |-> gid, idx |-> 0]]
    /\ UNCHANGED <<files, repoVars, sessions, last, ghostVars, lock, auxVars>>

\* with self._lock:
Acquire(t) ==
    /\ threads[t].pc \in {"assign_lock", "consume_lock"}
    /\ lock_free(lock)
    /\ lock' = t
    /\ Goto(t, IF threads[t].pc = "assign_lock" THEN "assign_load" ELSE "consume_test")
    /\ UNCHANGED <<files, repoVars, sessions, last, ghostVars, auxVars>>

\* assign_game: self._load_all()
AssignLoad(t) ==
    /\ threads[t].pc = "assign_load"
    /\ SetRepo(load_all(CurRepo, files))
    /\ Goto(t, "assign_test")
    /\ UNCHANGED <<files, rr_index, sessions, last, ghostVars, lock, auxVars>>

\* assign_game: if not self._ids: return None
AssignTest(t) ==
    /\ threads[t].pc = "assign_test"
    /\ IF ids = << >>
       THEN Leave(t, Call("assign_game", t, OK, None, NoResult, 0))
       ELSE Goto(t, "assign_mod") /\ UNCHANGED <<last, lock>>
    /\ UNCHANGED <<files, repoVars, sessions, ghostVars, auxVars>>

\* assign_game: self._rr_index % len(self._ids)
AssignMod(t) ==
    /\ threads[t].pc = "assign_mod"
    /\ IF Len(ids) = 0
       THEN Leave(t, Raised("assign_game", t, "ZeroDivisionError", "modulo by zero"))
       ELSE /\ threads' = [threads EXCEPT ![t].pc = "assign_index",
                                          ![t].idx = rr_index % Len(ids)]
            /\ UNCHANGED <<last, lock>>
    /\ UNCHANGED <<files, repoVars, sessions, ghostVars, auxVars>>

\* assign_game: gid = self._ids[...]
AssignIndex(t) ==
    /\ threads[t].pc = "assign_index"
    /\ IF threads[t].idx >= Len(ids)
       THEN Leave(t, Raised("assign_game", t, "IndexError", "list index out of range"))
       ELSE /\ threads' = [threads EXCEPT ![t].pc = "assign_incr",
                                          ![t].gid = ids[threads[t].idx + 1]]
            /\ UNCHANGED <<last, lock>>
    /\ UNCHANGED <<files, repoVars, sessions, ghostVars, auxVars>>

\* assign_game: self._rr_index += 1
AssignIncr(t) ==
    /\ threads[t].pc = "assign_incr"
    /\ rr_index' = rr_index + 1
    /\ Goto(t, "assign_return")
    /\ UNCHANGED <<files, games, paths, ids, loaded_paths, sessions, last,
                   ghostVars, lock, auxVars>>

\* assign_game: return gid
AssignReturn(t) ==
    /\ threads[t].pc = "assign_return"
    /\ Leave(t, Call("assign_game", t, OK, threads[t].gid, NoResult, 0))
    /\ UNCHANGED <<files, repoVars, sessions, ghostVars, auxVars>>

\* consume_game: if gid not in self._games: return False
ConsumeTest(t) ==
    /\ threads[t].pc = "consume_test"
    /\ IF threads[t].gid \notin DOMAIN games
       THEN Leave(t, Call("consume_game", t, OK, "False", NoResult, 0))
       ELSE Goto(t, "consume_remove") /\ UNCHANGED <<last, lock>>
    /\ UNCHANGED <<files, repoVars, sessions, ghostVars, auxVars>>

\* consume_game: self._ids.remove(gid), ValueError passed over
ConsumeRemove(t) ==
    /\ threads[t].pc = "consume_remove"
    /\ ids' = RemoveFirst(ids, threads[t].gid)
    /\ Goto(t, "consume_pop")
    /\ UNCHANGED <<files, games, paths, rr_index, loaded_paths, sessions, last,
                   ghostVars, lock, auxVars>>

\* consume_game: self._games.pop(gid, None)
ConsumePop(t) ==
    /\ threads[t].pc = "consume_pop"
    /\ games' = IF threads[t].gid \in DOMAIN games
                THEN Drop(games, threads[t].gid) ELSE games
    /\ Goto(t, "consume_unlink")
    /\ UNCHANGED <<files, paths, ids, rr_index, loaded_paths, sessions, last,
                   ghostVars, lock, auxVars>>

\* consume_game: p = self._paths.pop(gid, None) and the guarded p.unlink()
ConsumeUnlink(t) ==
    /\ threads[t].pc = "consume_unlink"
    /\ LET gid == threads[t].gid
       IN  IF gid \in DOMAIN paths
           THEN /\ paths' = Drop(paths, gid)
                /\ files' \in IF paths[gid] \in files /\ paths[gid][1] = UserDir
                               THEN {files \ {paths[gid]}, files}
                               ELSE {files}
           ELSE UNCHANGED <<paths, files>>
    /\ Goto(t, "consume_return")
    /\ UNCHANGED <<games, ids, rr_index, loaded_paths, sessions, last,
                   ghostVars, lock, auxVars>>

\* consume_game: return True
ConsumeReturn(t) ==
    /\ threads[t].pc = "consume_return"
    /\ consumed' = consumed \cup {threads[t].gid}
    /\ Leave(t, Call("consume_game", t, OK, "True", NoResult, 0))
    /\ UNCHANGED <<files, repoVars, sessions, assigns, appeared, auxVars>>

NextThreads ==
    \/ \E t \in Threads : CallAssign(t)
    \/ \E t \in Threads, gid \in Stems : CallConsume(t, gid)
    \/ \E t \in Threads : Acquire(t)
    \/ \E t \in Threads : AssignLoad(t)
    \/ \E t \in Threads : AssignTest(t)
    \/ \E t \in Threads : AssignMod(t)
    \/ \E t \in Threads : AssignIndex(t)
    \/ \E t \in Threads : AssignIncr(t)
    \/ \E t \in Threads : AssignReturn(t)
    \/ \E t \in Threads : ConsumeTest(t)
    \/ \E t \in Threads : ConsumeRemove(t)
    \/ \E t \in Threads : ConsumePop(t)
    \/ \E t \in Threads : ConsumeUnlink(t)
    \/ \E t \in Threads : ConsumeReturn(t)

\* the directory contents the threads are started on: one script, or two
ThreadDirs == { {<<UserDir, "u2">>}, {<<SeedsDir, "s1">>, <<UserDir, "u1">>} }

InitThreads == \E fs \in ThreadDirs : InitOver(fs)

SpecThreads == InitThreads /\ [][NextThreads]_vars

(***************************************************************************)
(* GameService                                                             *)
(***************************************************************************)
\* the threshold of wrong attempts at which make_move plays the move itself
AutoPlayThreshold == 10

\* make_move / make_maia_move with the status test left out
not_playing_ignored(session) == FALSE

\* session.status != SessionStatus.PLAYING
not_playing(session) == session.status # PLAYING

\* make_move with the legality test left out
move_rejected_never(session, move_str) == FALSE

\* mv not in session.board.legal_moves
move_rejected(session, move_str) == move_str \notin legal_moves(session.board)

\* create_session with the opening move of the script never played
opening_move_due_never(leela_color, board) == FALSE

\* leela_color == chess.BLACK and session.board.turn == chess.WHITE: the
\* script's first move is the opponent's and the board is waiting for it
opening_move_due(leela_color, board) == leela_color = BLACK /\ board.turn = WHITE

\* create_session(maia_level, player_color, custom_fen).  maia_level is only
\* stored.  last.ret is the id assign_game returned, if it was called.
CreateSession(player_color, custom_fen) ==
    /\ assigns < MaxAssign
    /\ LET board == BoardFromFen(custom_fen)
           assigning == has_games
           r == IF assigning THEN load_all(CurRepo, files) ELSE CurRepo
           gid == IF assigning THEN assign_pick(r, rr_index) ELSE None
           leela_color == get_leela_color(r.games, gid)
           actual_player_color ==
               IF gid # None /\ leela_color # None THEN leela_color
               ELSE color_or_white(player_color)
           fresh == GameSession(board, actual_player_color)
           withGame == IF gid = None THEN fresh
                       ELSE [fresh EXCEPT !.precomputed_game_id = gid,
                                          !.precomputed_ply_index = 0]
           maia_move_uci == get_expected(r.games, gid, 0)
           session ==
               IF /\ gid # None
                  /\ opening_move_due(leela_color, board)
                  /\ maia_move_uci # None
                  /\ maia_move_uci \in legal_moves(board)
               THEN [withGame EXCEPT
                        !.board = (CHOOSE o \in push(board, maia_move_uci) : TRUE).board,
                        !.precomputed_ply_index = 1,
                        !.move_index = @ + 1]
               ELSE withGame
       IN  /\ SetRepo(r)
           /\ rr_index' = IF gid = None THEN rr_index ELSE rr_index + 1
           /\ assigns' = IF assigning THEN assigns + 1 ELSE assigns
           /\ sessions' = Append(sessions, session)
           /\ last' = Call("create_session", Len(sessions) + 1, OK, gid, NoResult, 1)
    /\ UNCHANGED <<files, consumed, appeared, threadVars, auxVars>>

\* the client_validated branch without the score
validated_applied_unscored(session, board) ==
    [session EXCEPT !.board = board, !.move_index = @ + 1]

\* the client_validated branch: push, move_index += 1, score_total += 1.0
validated_applied(session, board) ==
    [session EXCEPT !.board = board, !.move_index = @ + 1, !.score_total = @ + 1]

\* make_move(session, move_str, client_validated)
MakeMove(sid, move_str, cv) ==
    LET session == sessions[sid]
        gid == session.precomputed_game_id
        expected_move_uci == get_expected(games, gid, session.precomputed_ply_index)
        Raise(exception, message) ==
            /\ last' = Raised("make_move", sid, exception, message)
            /\ UNCHANGED <<files, repoVars, sessions, ghostVars, threadVars,
                           auxVars>>
        \* the session after a call that did not finish the game, saved
        Return(after, result) ==
            /\ sessions' = [sessions EXCEPT ![sid] = after]
            /\ last' = Call("make_move", sid, OK, None, result, 1)
            /\ UNCHANGED <<files, repoVars, ghostVars, threadVars, auxVars>>
        \* the tail of the two grading branches, after the board was pushed
        Advance(after, result) ==
            IF is_game_over(after.board)
            THEN /\ sessions' = [sessions EXCEPT ![sid] = [after EXCEPT !.status = FINISHED]]
                 /\ ConsumeEffect(gid)
                 /\ last' = Call("make_move", sid, OK, None, result, 1)
                 /\ UNCHANGED <<assigns, appeared, threadVars, auxVars>>
            ELSE Return(after, result)
    IN
    IF not_playing(session)
    THEN Raise("GameFinishedError", "Game is already finished")
    ELSE IF ~from_uci_ok(move_str)
    THEN Raise("IllegalMoveError", "Invalid move format")
    ELSE IF session.board.turn # session.player_color
    THEN Raise("IllegalMoveError", "Not your turn")
    ELSE IF move_rejected(session, move_str)
    THEN Raise("IllegalMoveError", "Illegal move in current position")
    ELSE IF cv
    THEN /\ Len(session.board.stack) < MaxStack
         /\ \E o \in push(session.board, move_str) :
              LET pushed == validated_applied(session, o.board)
              IN  Return(IF is_game_over(pushed.board)
                         THEN [pushed EXCEPT !.status = FINISHED] ELSE pushed,
                         MoveResult(move_str, TRUE, "Move accepted", move_str, 1))
    ELSE IF gid = Unset
    THEN Raise("AttributeError", "precomputed_game_id")
    ELSE IF gid = None
    THEN /\ session.current_move_attempts < MaxAttempts
         /\ Return([session EXCEPT !.current_move_attempts = @ + 1],
                   MoveResult(move_str, FALSE, "No precomputed game available",
                              None, session.current_move_attempts + 1))
    ELSE IF expected_move_uci = None
    THEN /\ session.current_move_attempts < MaxAttempts
         /\ Return([session EXCEPT !.current_move_attempts = @ + 1],
                   MoveResult(move_str, FALSE,
                              "No expected move (end of precomputed game)",
                              None, session.current_move_attempts + 1))
    ELSE IF move_str # expected_move_uci
    THEN /\ session.current_move_attempts < MaxAttempts
         /\ IF session.current_move_attempts + 1 >= AutoPlayThreshold
            THEN /\ Len(session.board.stack) < MaxStack
                 /\ \E o \in push(session.board, expected_move_uci) :
                      IF o.raised
                      THEN /\ sessions' = [sessions EXCEPT ![sid] =
                                  [session EXCEPT !.current_move_attempts = @ + 1,
                                                  !.board = o.board]]
                           /\ last' = Raised("make_move", sid,
                                             "AssertionError", "push")
                           /\ UNCHANGED <<files, repoVars, ghostVars, threadVars,
                                          auxVars>>
                      ELSE Advance([session EXCEPT
                                       !.board = o.board,
                                       !.move_index = @ + 1,
                                       !.current_move_attempts = 0,
                                       !.precomputed_ply_index = @ + 1],
                                   MoveResult(expected_move_uci, TRUE,
                                              "Auto-played after 10 attempts.",
                                              expected_move_uci, 10))
            ELSE Return([session EXCEPT !.current_move_attempts = @ + 1],
                        MoveResult(move_str, FALSE, "Not the top move. Try again.",
                                   None, session.current_move_attempts + 1))
    ELSE /\ Len(session.board.stack) < MaxStack
         /\ \E o \in push(session.board, expected_move_uci) :
              Advance([session EXCEPT !.board = o.board,
                                      !.move_index = @ + 1,
                                      !.score_total = @ + 1,
                                      !.current_move_attempts = 0,
                                      !.precomputed_ply_index = @ + 1],
                      MoveResult(move_str, TRUE, "Correct", expected_move_uci,
                                 session.current_move_attempts + 1))

\* the scripted reply counted as a scored move
reply_applied_scored(session, board) ==
    [session EXCEPT !.board = board, !.move_index = @ + 1,
                    !.precomputed_ply_index = @ + 1, !.score_total = @ + 1]

\* the scripted reply applied: push, move_index += 1, precomputed_ply_index += 1
reply_applied(session, board) ==
    [session EXCEPT !.board = board, !.move_index = @ + 1,
                    !.precomputed_ply_index = @ + 1]

\* make_maia_move(session)
MakeMaiaMove(sid) ==
    LET session == sessions[sid]
        gid == session.precomputed_game_id
        expected_next == get_expected(games, gid, session.precomputed_ply_index)
        Done(ret, saves) == last' = Call("make_maia_move", sid, OK, ret,
                                         NoResult, saves)
        \* finish the session, consume its script and drop the association
        FinishAndConsume(after, ret) ==
            /\ sessions' = [sessions EXCEPT ![sid] =
                   [after EXCEPT !.status = FINISHED,
                                 !.precomputed_game_id = None,
                                 !.precomputed_ply_index = 0]]
            /\ ConsumeEffect(gid)
            /\ Done(ret, 1)
            /\ UNCHANGED <<assigns, appeared, threadVars, auxVars>>
    IN
    IF not_playing(session)
    THEN /\ Done(None, 0)
         /\ UNCHANGED <<files, repoVars, sessions, ghostVars, threadVars,
                        auxVars>>
    ELSE IF is_game_over(session.board)
    THEN /\ sessions' = [sessions EXCEPT ![sid].status = FINISHED]
         /\ Done(None, 1)
         /\ UNCHANGED <<files, repoVars, ghostVars, threadVars, auxVars>>
    ELSE IF gid = Unset
    THEN /\ last' = Raised("make_maia_move", sid, "AttributeError",
                           "precomputed_game_id")
         /\ UNCHANGED <<files, repoVars, sessions, ghostVars, threadVars,
                        auxVars>>
    ELSE IF gid = None
    THEN /\ sessions' = [sessions EXCEPT ![sid].status = FINISHED]
         /\ Done(None, 1)
         /\ UNCHANGED <<files, repoVars, ghostVars, threadVars, auxVars>>
    ELSE IF expected_next = None
    THEN FinishAndConsume(session, None)
    ELSE /\ Len(session.board.stack) < MaxStack
         /\ \E o \in push(session.board, expected_next) :
              IF o.raised
              THEN /\ sessions' = [sessions EXCEPT ![sid].board = o.board]
                   /\ last' = Raised("make_maia_move", sid,
                                     "AssertionError", "push")
                   /\ UNCHANGED <<files, repoVars, ghostVars, threadVars,
                                  auxVars>>
              ELSE LET after == reply_applied(session, o.board)
                   IN  IF is_game_over(after.board)
                       THEN FinishAndConsume(after, expected_next)
                       ELSE /\ sessions' = [sessions EXCEPT ![sid] = after]
                            /\ Done(expected_next, 1)
                            /\ UNCHANGED <<files, repoVars, ghostVars, threadVars,
                                           auxVars>>

\* the inputs of create_session and make_move
ColorInputs == {None, WHITE, BLACK}

FenInputs == {None, FenInvalid, FenBlackToMove, FenMated}

MoveInputs == UciMoves \cup {BadUci}

(***************************************************************************)
(* Spec follows one session from its creation.  The other clients of the   *)
(* service reach this session only through the repository they share with  *)
(* it, so they appear as the repository calls they cause (AssignGame,      *)
(* ConsumeGame).                                                          *)
(***************************************************************************)
\* directory contents the service is started on: nothing, a file without
\* moves, one script of each kind, and pairs of scripts
StartDirs ==
    { {}, {<<UserDir, "u3">>}, {<<SeedsDir, "s1">>}, {<<UserDir, "u1">>},
      {<<UserDir, "u2">>}, {<<SeedsDir, "s1">>, <<UserDir, "s1">>},
      {<<SeedsDir, "s1">>, <<UserDir, "u1">>} }

Init == \E fs \in StartDirs : InitOver(fs)

Next ==
    \/ \E player_color \in ColorInputs, custom_fen \in FenInputs :
           sessions = << >> /\ CreateSession(player_color, custom_fen)
    \/ \E sid \in SessionIds, move_str \in MoveInputs, cv \in BOOLEAN :
           MakeMove(sid, move_str, cv)
    \/ \E sid \in SessionIds : MakeMaiaMove(sid)
    \/ AssignGame
    \/ \E gid \in Stems : ConsumeGame(gid)

Spec == Init /\ [][Next]_vars

(***************************************************************************)
(* SpecPool follows several sessions that share the pool of scripts, each  *)
(* user submitting the move its script expects.                            *)
(***************************************************************************)
NextPool ==
    \/ \E player_color \in ColorInputs, custom_fen \in FenInputs :
           Len(sessions) < MaxSessions /\ CreateSession(player_color, custom_fen)
    \/ \E sid \in SessionIds, move_str \in MoveInputs :
           /\ move_str = get_expected(games, sessions[sid].precomputed_game_id,
                                      sessions[sid].precomputed_ply_index)
           /\ MakeMove(sid, move_str, FALSE)
    \/ \E sid \in SessionIds : MakeMaiaMove(sid)

SpecPool == Init /\ [][NextPool]_vars

(***************************************************************************)
(* SpecSolo follows one session with no other traffic on the repository    *)
(* than another holder of a script consuming it.                           *)
(***************************************************************************)
NextSolo ==
    \/ \E player_color \in ColorInputs, custom_fen \in FenInputs :
           sessions = << >> /\ CreateSession(player_color, custom_fen)
    \/ \E sid \in SessionIds, move_str \in MoveInputs, cv \in BOOLEAN :
           MakeMove(sid, move_str, cv)
    \/ \E sid \in SessionIds : MakeMaiaMove(sid)
    \/ \E gid \in Stems : gid \in DOMAIN games /\ ConsumeGame(gid)

SpecSolo == Init /\ [][NextSolo]_vars

(***************************************************************************)
(* SpecLater follows one session to its end and the assign_game() calls    *)
(* that other clients make after it.                                       *)
(***************************************************************************)
NextLater ==
    \/ NextSolo
    \/ /\ \E sid \in SessionIds : sessions[sid].status = FINISHED
       /\ AssignGame

SpecLater == Init /\ [][NextLater]_vars

(***************************************************************************)
(* SpecSeeds follows the creation of sessions while games are consumed and *)
(* the seed generator writes new files.                                    *)
(***************************************************************************)
NextSeeds ==
    \/ \E player_color \in ColorInputs, custom_fen \in FenInputs :
           Len(sessions) < MaxSessions /\ CreateSession(player_color, custom_fen)
    \/ \E gid \in Stems : ConsumeGame(gid)
    \/ \E p \in Catalog : WriteSeed(p)

SpecSeeds == Init /\ [][NextSeeds]_vars

(***************************************************************************)
(* The lock-free readers get_expected, get_reply, game_length and          *)
(* get_leela_color, called from a thread of their own while other threads  *)
(* are inside consume_game.  A reader takes no lock: it fetches            *)
(* self._games.get(gid) into the local g, then works on g alone.           *)
(***************************************************************************)
\* what the new components leave alone in the repository and the service
serviceVars == <<files, repoVars, sessions, ghostVars, threadVars, pending>>

ReaderOps == {"get_expected", "get_reply", "game_length", "get_leela_color"}

\* the ply arguments: one below the first ply up to one past the longest script
PlyInputs == (0 - 1)..MaxScriptLen

\* self._games.get(gid): the entry of gid alone, or nothing
Only(gs, gid) == IF gid \in DOMAIN gs THEN Put(<< >>, gid, gs[gid]) ELSE << >>

\* a reader that looks gid up in self._games again after the test of g
held_game_reread(g, gs) == gs

\* after `if not g`, a reader works on the object it holds in g
held_game(g, gs) == g

\* what reader op computes from the entry it holds
reader_value(op, g, gid, ply) ==
    CASE op = "get_expected" -> get_expected(g, gid, ply)
      [] op = "get_reply" -> get_reply(g, gid, ply)
      [] op = "game_length" -> game_length(g, gid)
      [] op = "get_leela_color" -> get_leela_color(g, gid)

\* a thread calls reader op; known records the entry of gid at that moment
CallReader(op, gid, ply) ==
    /\ reader.pc = "idle"
    /\ reader' = [pc |-> "fetch", op |-> op, gid |-> gid, ply |-> ply,
                  known |-> Only(games, gid), g |-> << >>]
    /\ UNCHANGED <<serviceVars, grader, last, storeVars, history_file, writers, gen, cli>>

\* g = self._games.get(gid)
ReaderFetch ==
    /\ reader.pc = "fetch"
    /\ reader' = [reader EXCEPT !.pc = "use", !.g = Only(games, reader.gid)]
    /\ UNCHANGED <<serviceVars, grader, last, storeVars, history_file, writers, gen, cli>>

\* the rest of the reader: `if not g` and the value taken from g
ReaderReturn ==
    /\ reader.pc = "use"
    /\ LET h == held_game(reader.g, games)
       IN  last' = IF reader.gid \in DOMAIN reader.g /\ reader.gid \notin DOMAIN h
                   THEN Raised(reader.op, 0, "KeyError", reader.gid)
                   ELSE Call(reader.op, 0, OK,
                             reader_value(reader.op, h, reader.gid, reader.ply),
                             NoResult, 0)
    /\ reader' = [IdleReader EXCEPT !.gid = reader.gid]
    /\ UNCHANGED <<serviceVars, grader, storeVars, history_file, writers, gen, cli>>

\* the reader beside thread 1 calling consume_game
NextReaders ==
    \/ \E gid \in Stems : CallConsume(1, gid)
    \/ \E t \in Threads : Acquire(t)
    \/ \E t \in Threads : ConsumeTest(t)
    \/ \E t \in Threads : ConsumeRemove(t)
    \/ \E t \in Threads : ConsumePop(t)
    \/ \E t \in Threads : ConsumeUnlink(t)
    \/ \E t \in Threads : ConsumeReturn(t)
    \/ \E op \in ReaderOps, gid \in Stems, ply \in PlyInputs : CallReader(op, gid, ply)
    \/ ReaderFetch
    \/ ReaderReturn

SpecReaders == InitThreads /\ [][NextReaders]_vars

(***************************************************************************)
(* The repository called directly, with the rotation recorded              *)
(***************************************************************************)
SpecRotation ==
    /\ \E fs \in SUBSET Catalog :
           /\ InitBase(fs)
           /\ pending = [NoRotation EXCEPT !.on = TRUE]
           /\ reader = IdleReader
           /\ StoreEmpty
           /\ NoHistory
           /\ gen = GenOff
           /\ cli = CliOff
           /\ grader = IdleGrader
    /\ [][NextRepo]_vars

(***************************************************************************)
(* The session store (repositories/session_repository.py).  self._sessions *)
(* is a dict: store_sessions lists its items in insertion order.  The      *)
(* clock is time.time(), in whole seconds up to MaxTime.  touched is the   *)
(* time of each stored session's last save_session or get_session.         *)
(***************************************************************************)
\* the clock stops here
MaxTime == 3

StoreIds == {"a", "b"}

\* the sessions handed to save_session: an id and the rest of the object
SessionInputs == {[id |-> i, data |-> v] : i \in StoreIds, v \in {"v1", "v2"}}

\* the keys of self._sessions
StoredIds == {store_sessions[k].id : k \in 1..Len(store_sessions)}

\* self._sessions.get(session_id)
session_of(seq, sid) ==
    IF \E k \in 1..Len(seq) : seq[k].id = sid
    THEN seq[CHOOSE k \in 1..Len(seq) : seq[k].id = sid].data
    ELSE None

\* a store that adds an item on every save
store_put_append(seq, s) == Append(seq, s)

\* self._sessions[session.id] = session: the item of an id already there is
\* replaced where it stands, a new id is added at the end
store_put(seq, s) ==
    IF \E k \in 1..Len(seq) : seq[k].id = s.id
    THEN [k \in 1..Len(seq) |-> IF seq[k].id = s.id THEN s ELSE seq[k]]
    ELSE Append(seq, s)

\* an expiry test that also takes the sessions aged exactly max_age_seconds
expired_from(times, current_time, max_age_seconds) ==
    {sid \in DOMAIN times : current_time - times[sid] >= max_age_seconds}

\* cleanup_expired: the ids with current_time - access_time > max_age_seconds
expired(times, current_time, max_age_seconds) ==
    {sid \in DOMAIN times : current_time - times[sid] > max_age_seconds}

\* save_session(session)
SaveSession(s) ==
    /\ store_sessions' = store_put(store_sessions, s)
    /\ access_times' = Put(access_times, s.id, now)
    /\ touched' = Put(touched, s.id, now)
    /\ last' = Call("save_session", 0, OK, None, NoResult, 0)
    /\ UNCHANGED <<serviceVars, grader, reader, now, history_file, writers, gen, cli>>

\* get_session(session_id)
GetSession(sid) ==
    /\ IF sid \in StoredIds
       THEN /\ access_times' = Put(access_times, sid, now)
            /\ touched' = Put(touched, sid, now)
       ELSE UNCHANGED <<access_times, touched>>
    /\ last' = Call("get_session", 0, OK, session_of(store_sessions, sid), NoResult, 0)
    /\ UNCHANGED <<serviceVars, grader, reader, store_sessions, now, history_file,
                   writers, gen, cli>>

\* delete_session(session_id)
DeleteSession(sid) ==
    /\ IF sid \in StoredIds
       THEN /\ store_sessions' = SelectSeq(store_sessions, LAMBDA s : s.id # sid)
            /\ access_times' = Drop(access_times, sid)
            /\ touched' = Drop(touched, sid)
       ELSE UNCHANGED <<store_sessions, access_times, touched>>
    /\ last' = Call("delete_session", 0, OK, None, NoResult, 0)
    /\ UNCHANGED <<serviceVars, grader, reader, now, history_file, writers, gen, cli>>

\* get_all_sessions()
GetAllSessions ==
    /\ last' = Call("get_all_sessions", 0, OK,
                    [k \in 1..Len(store_sessions) |-> store_sessions[k].data],
                    NoResult, 0)
    /\ UNCHANGED <<serviceVars, grader, reader, storeVars, history_file, writers, gen, cli>>

\* cleanup_expired(max_age_seconds)
CleanupExpired(max_age_seconds) ==
    /\ LET old == expired(access_times, now, max_age_seconds)
       IN  /\ store_sessions' = SelectSeq(store_sessions, LAMBDA s : s.id \notin old)
           /\ access_times' = [sid \in (DOMAIN access_times) \ old |-> access_times[sid]]
           /\ touched' = [sid \in (DOMAIN touched) \ old |-> touched[sid]]
           /\ last' = Call("cleanup_expired", 0, OK, Cardinality(old), NoResult, 0)
    /\ UNCHANGED <<serviceVars, grader, reader, now, history_file, writers, gen, cli>>

\* a second passes
Tick ==
    /\ now < MaxTime
    /\ now' = now + 1
    /\ UNCHANGED <<serviceVars, grader, last, reader, store_sessions, access_times, touched,
                   history_file, writers, gen, cli>>

\* the store called through its whole interface
NextStore ==
    \/ \E s \in SessionInputs : SaveSession(s)
    \/ \E sid \in StoreIds : GetSession(sid)
    \/ \E sid \in StoreIds : DeleteSession(sid)
    \/ GetAllSessions
    \/ \E max_age_seconds \in 0..MaxTime : CleanupExpired(max_age_seconds)
    \/ Tick

SpecStore == InitOver({}) /\ [][NextStore]_vars

\* the store as the running application calls it: GameService saves and
\* fetches sessions; nothing in the application calls delete_session,
\* cleanup_expired or GameService.cleanup_expired_sessions
NextStoreApp ==
    \/ \E s \in SessionInputs : SaveSession(s)
    \/ \E sid \in StoreIds : GetSession(sid)
    \/ Tick

\* time passes whatever the clients do
SpecStoreApp == InitOver({}) /\ [][NextStoreApp]_vars /\ WF_vars(Tick)

(***************************************************************************)
(* A request that grades a move (controllers/session_controller.py         *)
(* api_session_predict): the handler fetches the session with get_session, *)
(* GameService.make_move / make_maia_move work on the object it holds, and *)
(* they end with save_session on that object.  The store's lock covers     *)
(* each call of the store, not the request.                                *)
(***************************************************************************)
\* session = session_repo.get_session(sid), found (a miss ends the request
\* with 404 and is the call GetSession)
GradeFetch(sid) ==
    /\ grader.pc = "idle"
    /\ sid \in StoredIds
    /\ access_times' = Put(access_times, sid, now)
    /\ touched' = Put(touched, sid, now)
    /\ grader' = [pc |-> "fetched",
                  session |-> [id |-> sid, data |-> session_of(store_sessions, sid)]]
    /\ last' = Call("get_session", 0, OK, session_of(store_sessions, sid), NoResult, 0)
    /\ UNCHANGED <<serviceVars, reader, store_sessions, now, history_file,
                   writers, gen, cli>>

\* self.session_repo.save_session(session) at the end of the grading call,
\* on the session the handler holds, with the fields the call has written
GradeSave(data) ==
    /\ grader.pc = "fetched"
    /\ store_sessions' = store_put(store_sessions, [grader.session EXCEPT !.data = data])
    /\ access_times' = Put(access_times, grader.session.id, now)
    /\ touched' = Put(touched, grader.session.id, now)
    /\ grader' = IdleGrader
    /\ last' = Call("save_session", 0, OK, None, NoResult, 0)
    /\ UNCHANGED <<serviceVars, reader, now, history_file, writers, gen, cli>>

\* the store under its whole interface and one grading request
NextGrade ==
    \/ NextStore
    \/ \E sid \in StoreIds : GradeFetch(sid)
    \/ \E data \in {"v1", "v2"} : GradeSave(data)

SpecGrade == InitOver({}) /\ [][NextGrade]_vars

(***************************************************************************)
(* The completed-game log (repositories/game_history_repository.py): a     *)
(* JSON file holding one list.  save_game builds its entry, reads the      *)
(* whole file, appends, and writes the whole file again; a thread's record *)
(* holds the list it has read and extended.  The file is missing, holds a  *)
(* list, or holds text that is not JSON ("corrupt").                       *)
(***************************************************************************)
\* cap on the number of stored entries
MaxHistory == 3

\* an entry whose fields do not convert (float(...) or int(...) raises)
Malformed == "malformed"

\* a GameHistoryEntry whose date or session_id is not a JSON value: the
\* fields are copied unconverted and json.dump raises TypeError when it
\* reaches them
Unserializable == "unserializable"

\* the arguments of save_game
EntryInputs == {"e1", "e2", Malformed, Unserializable}

\* _load_history() on a file it can read: the stored list, [] without a file
load_history(f) == IF f.kind = "list" THEN f.entries ELSE << >>

\* save_game up to history.append(entry_dict)
SaveLoad(t, e) ==
    /\ writers[t].pc = "idle"
    /\ Len(history_file.entries) < MaxHistory
    /\ IF e = Malformed \/ history_file.kind = "corrupt"
       THEN /\ last' = Raised("save_game", t, "DataError", e)
            /\ UNCHANGED writers
       ELSE /\ writers' = [writers EXCEPT ![t] =
                              [pc |-> "write", entry |-> e,
                               history |-> Append(load_history(history_file), e)]]
            /\ UNCHANGED last
    /\ UNCHANGED <<serviceVars, grader, reader, storeVars, history_file, gen, cli>>

\* save_game from self._save_history(history) on: open(file, "w") empties
\* the file, json.dump writes the list into it piece by piece
SaveWrite(t) ==
    /\ writers[t].pc = "write"
    /\ IF writers[t].entry = Unserializable
       THEN /\ history_file' = [kind |-> "corrupt", entries |-> << >>]
            /\ last' = Raised("save_game", t, "DataError", writers[t].entry)
       ELSE /\ history_file' = [kind |-> "list", entries |-> writers[t].history]
            /\ last' = Call("save_game", t, OK, writers[t].entry, NoResult, 0)
    /\ writers' = [writers EXCEPT ![t] = IdleWriter]
    /\ UNCHANGED <<serviceVars, grader, reader, storeVars, gen, cli>>

\* get_all_games()
GetAllGames ==
    /\ last' = IF history_file.kind = "corrupt"
               THEN Raised("get_all_games", 0, "DataError", None)
               ELSE Call("get_all_games", 0, OK, load_history(history_file), NoResult, 0)
    /\ UNCHANGED <<serviceVars, grader, reader, storeVars, history_file, writers, gen, cli>>

\* clear_history()
ClearHistory ==
    /\ history_file' = [kind |-> "list", entries |-> << >>]
    /\ last' = Call("clear_history", 0, OK, None, NoResult, 0)
    /\ UNCHANGED <<serviceVars, grader, reader, storeVars, writers, gen, cli>>

\* the log called by one thread, one call at a time
NextHistory ==
    \/ \E e \in EntryInputs : SaveLoad(1, e)
    \/ SaveWrite(1)
    \/ writers[1].pc = "idle" /\ GetAllGames
    \/ writers[1].pc = "idle" /\ ClearHistory

SpecHistory == InitOver({}) /\ [][NextHistory]_vars

\* the log called by the request handlers of POST /api/game-history, which
\* run in a thread pool: the calls of the threads interleave between the
\* read and the write, each of which is one file operation
NextWriters ==
    \/ \E t \in Writers, e \in EntryInputs : SaveLoad(t, e)
    \/ \E t \in Writers : SaveWrite(t)

SpecWriters == InitOver({}) /\ [][NextWriters]_vars

(***************************************************************************)
(* The seed generator in daemon mode (scripts/generate_seeds.py, main):    *)
(* one process that loops over "count the *.pgn files of the user          *)
(* directory; at the cap sleep 60 s, below it generate one game".          *)
(* generate_game writes its file whatever the number of plies played, so   *)
(* an engine failure at ply 0 leaves a file without moves; an exception    *)
(* that escapes generate_game is logged and the loop goes on after 2 s.    *)
(* gen holds the position in the loop, --max-seeds, and the number of      *)
(* files found when the process started.                                   *)
(***************************************************************************)
\* out_dir.glob("*.pgn")
user_files(fs) == {p \in fs : p[1] = UserDir}

\* a generator that never finds the directory full
cap_reached_never(current, max_seeds) == FALSE

\* current >= max(0, int(args.max_seeds))
cap_reached(current, max_seeds) ==
    current >= (IF max_seeds > 0 THEN max_seeds ELSE 0)

\* main(["--daemon", "--max-seeds", max_seeds]) up to the head of the loop
DaemonStart(max_seeds) ==
    /\ gen.pc = "off"
    /\ gen' = [pc |-> "check", max_seeds |-> max_seeds,
               start |-> Cardinality(user_files(files))]
    /\ UNCHANGED <<serviceVars, grader, last, reader, storeVars, history_file, writers, cli>>

\* the cap test at the head of the loop
DaemonCheck ==
    /\ gen.pc = "check"
    /\ gen' = [gen EXCEPT !.pc =
                  IF cap_reached(Cardinality(user_files(files)), gen.max_seeds)
                  THEN "sleep" ELSE "generate"]
    /\ UNCHANGED <<serviceVars, grader, last, reader, storeVars, history_file, writers, cli>>

\* time.sleep(60.0); continue, and time.sleep(2.0) after a failure
DaemonSleep ==
    /\ gen.pc \in {"sleep", "retry"}
    /\ gen' = [gen EXCEPT !.pc = "check"]
    /\ UNCHANGED <<serviceVars, grader, last, reader, storeVars, history_file, writers, cli>>

\* generate_game returns: the file p, under a name no file has had, is in
\* the user directory with the moves played before the game or the engine
\* stopped (none when the engine failed at ply 0)
DaemonGenerate(p) ==
    /\ gen.pc = "generate"
    /\ p[1] = UserDir
    /\ \A q \in files \cup loaded_paths : q[2] # p[2]
    /\ files' = files \cup {p}
    /\ appeared' = appeared \cup {p}
    /\ last' = Call("generate_game", 0, OK, p[2], NoResult, 0)
    /\ gen' = [gen EXCEPT !.pc = "check"]
    /\ UNCHANGED <<repoVars, sessions, consumed, assigns, threadVars, pending, grader,
                   reader, storeVars, history_file, writers, cli>>

\* generate_game raises (no engine, no network file): nothing is written
DaemonFail ==
    /\ gen.pc = "generate"
    /\ last' = Raised("generate_game", 0, "Exception", None)
    /\ gen' = [gen EXCEPT !.pc = "retry"]
    /\ UNCHANGED <<serviceVars, grader, reader, storeVars, history_file, writers, cli>>

\* the generator beside a web application that assigns and consumes scripts
NextDaemon ==
    \/ \E max_seeds \in (0 - 1)..2 : DaemonStart(max_seeds)
    \/ DaemonCheck
    \/ DaemonSleep
    \/ \E p \in Catalog : DaemonGenerate(p)
    \/ DaemonFail
    \/ AssignGame
    \/ \E gid \in Stems : ConsumeGame(gid)

\* the user directory at the start: empty, or holding two scripts
SpecDaemon ==
    /\ \E fs \in {{}, {<<UserDir, "u1">>, <<UserDir, "u2">>}} : InitOver(fs)
    /\ [][NextDaemon]_vars

\* the generator process keeps running, and the engine, tried again and
\* again, does not fail every time
SpecDaemonLive ==
    /\ SpecDaemon
    /\ WF_vars(DaemonCheck)
    /\ WF_vars(DaemonSleep)
    /\ WF_vars(DaemonFail \/ \E p \in Catalog : DaemonGenerate(p))
    /\ SF_vars(\E p \in Catalog : FileMoves(p) # << >> /\ DaemonGenerate(p))

(***************************************************************************)
(* `lcstudy up` (cli.py, cmd_up) with the settings singleton               *)
(* (config/settings.py).  cli holds the position in cmd_up, the --no-seeds *)
(* flag, os.environ restricted to the two seed variables, the singleton    *)
(* _settings, and what the web-app module saw when it was imported.  The   *)
(* install thread cmd_up starts reads neither the two variables nor the    *)
(* settings.                                                               *)
(***************************************************************************)
\* the values a seed variable may hold when the process starts
EnvValues == {"1", "0", "ON", "no", ""}

\* value.lower() in ("1", "true", "yes", "on"): "ON" lowers to "on"
truthy(value) == value \in {"1", "true", "yes", "on", "ON"}

\* settings in which the enable flag has the last word
from_env_enable_last(environ) ==
    IF "LCSTUDY_ENABLE_SEEDS" \in DOMAIN environ /\ environ["LCSTUDY_ENABLE_SEEDS"] # ""
    THEN truthy(environ["LCSTUDY_ENABLE_SEEDS"])
    ELSE ~ ("LCSTUDY_DISABLE_SEEDS" \in DOMAIN environ
            /\ truthy(environ["LCSTUDY_DISABLE_SEEDS"]))

\* Settings.from_env(): enable_seed_generator
from_env(environ) ==
    LET enabled ==
            IF /\ "LCSTUDY_ENABLE_SEEDS" \in DOMAIN environ
               /\ environ["LCSTUDY_ENABLE_SEEDS"] # ""
            THEN truthy(environ["LCSTUDY_ENABLE_SEEDS"])
            ELSE TRUE
    IN  IF /\ "LCSTUDY_DISABLE_SEEDS" \in DOMAIN environ
           /\ environ["LCSTUDY_DISABLE_SEEDS"] # ""
           /\ truthy(environ["LCSTUDY_DISABLE_SEEDS"])
        THEN FALSE
        ELSE enabled

\* get_settings(): the singleton, built from the environment on first use
get_settings(c) ==
    IF c.settings.read THEN c.settings
    ELSE [read |-> TRUE, enable_seed_generator |-> from_env(c.environ)]

\* cmd_up(args) in a fresh process, up to the start of the install thread;
\* it returns 1 when a web dependency is missing
CmdUp(no_seeds, environ) ==
    /\ cli.pc = "off"
    /\ \E deps \in BOOLEAN :
           cli' = [cli EXCEPT !.pc = IF deps THEN "flags" ELSE "returned",
                              !.no_seeds = no_seeds,
                              !.environ = environ]
    /\ UNCHANGED <<serviceVars, grader, last, reader, storeVars, history_file, writers, gen>>

\* _apply_runtime_flags(args)
ApplyFlags ==
    /\ cli.pc = "flags"
    /\ cli' = [cli EXCEPT !.pc = "import",
                          !.environ = IF cli.no_seeds
                                      THEN Put(@, "LCSTUDY_DISABLE_SEEDS", "1")
                                      ELSE @]
    /\ UNCHANGED <<serviceVars, grader, last, reader, storeVars, history_file, writers, gen>>

\* from .webapp import app: the module body runs and reads the settings
ImportWebapp ==
    /\ cli.pc = "import"
    /\ cli' = [cli EXCEPT !.pc = "settings",
                          !.settings = get_settings(cli),
                          !.webapp = [imported |-> TRUE,
                                      enable_seed_generator |->
                                          get_settings(cli).enable_seed_generator]]
    /\ UNCHANGED <<serviceVars, grader, last, reader, storeVars, history_file, writers, gen>>

\* settings = get_settings() and uvicorn.run(app, ...)
ServeApp ==
    /\ cli.pc = "settings"
    /\ cli' = [cli EXCEPT !.pc = "serving", !.settings = get_settings(cli)]
    /\ UNCHANGED <<serviceVars, grader, last, reader, storeVars, history_file, writers, gen>>

NextCli ==
    \/ \E no_seeds \in BOOLEAN,
          names \in SUBSET {"LCSTUDY_ENABLE_SEEDS", "LCSTUDY_DISABLE_SEEDS"} :
          \E environ \in [names -> EnvValues] : CmdUp(no_seeds, environ)
    \/ ApplyFlags
    \/ ImportWebapp
    \/ ServeApp

SpecCli == InitOver({}) /\ [][NextCli]_vars

(***************************************************************************)
(* Properties of the repository                                            *)
(***************************************************************************)
\* C1: once consume_game(id) has returned True, no assign_game() call returns
\* id and get_expected(id, p) is None for every ply p, although every
\* assign_game rescans the directories and the file may still be on disk.
C1_AtMostOnceConsumption ==
    /\ last.op = "assign_game" => last.ret \notin consumed
    /\ \A gid \in consumed : \A ply_index \in 0..MaxScriptLen :
           get_expected(games, gid, ply_index) = None

\* an assign_game() that returned a game after another game was consumed whose
\* file is still on disk
C1_Witness ==
    /\ last.op = "assign_game"
    /\ last.ret # None
    /\ \E gid \in consumed : \E p \in files : p[2] = gid

\* C3: with N >= 1 games, no consumption and no new file, the k-th
\* assign_game() since construction returns the id at position (k-1) mod N of
\* the load order: each id once in N calls, in that order, and the first id
\* again at call N+1.
C3_RoundRobin ==
    (consumed = {} /\ appeared = {} /\ ids # << >> /\ last.op = "assign_game") =>
        last.ret = ids[((assigns - 1) % Len(ids)) + 1]

\* two games, three calls: the third call wrapped to the first id
C3_Witness ==
    /\ consumed = {} /\ appeared = {}
    /\ Len(ids) = 2
    /\ assigns = 3
    /\ last.op = "assign_game"
    /\ last.ret = ids[1]

(***************************************************************************)
(* Properties of the service                                               *)
(***************************************************************************)
UserToMove(session) == session.board.turn = session.player_color

HasScript(session) == session.precomputed_game_id \notin {Unset, None}

\* the move the session's script holds at the session's script ply
ExpectedOf(session) ==
    get_expected(games, session.precomputed_game_id, session.precomputed_ply_index)

\* C2: no two Playing sessions hold the same scripted-game id.
C2_OnePlayerPerGame ==
    \A a \in SessionIds : \A b \in SessionIds :
        (/\ a # b
         /\ sessions[a].status = PLAYING
         /\ sessions[b].status = PLAYING
         /\ HasScript(sessions[a]))
        => sessions[a].precomputed_game_id # sessions[b].precomputed_game_id

\* C4: on a Playing session with a script, the user to move and an expected
\* move m, a legal move other than m is answered with correct = false and
\* attempts 1..9 while the board, move_index and score_total stay as they are;
\* the tenth is answered with correct = true, m pushed, move_index and the
\* script ply advanced by one, the retry count 0 and score_total unchanged.
C4_RetryThenAutoPlay ==
    [][\A sid \in SessionIds : \A move_str \in UciMoves :
         LET s == sessions[sid]
             t == sessions'[sid]
             m == ExpectedOf(s)
         IN  (/\ s.status = PLAYING /\ HasScript(s) /\ UserToMove(s)
              /\ m # None
              /\ move_str \in legal_moves(s.board) /\ move_str # m
              /\ s.current_move_attempts < AutoPlayThreshold
              /\ MakeMove(sid, move_str, FALSE))
             => IF s.current_move_attempts + 1 < AutoPlayThreshold
                THEN /\ last'.outcome = OK
                     /\ last'.result.correct = FALSE
                     /\ last'.result.attempts = s.current_move_attempts + 1
                     /\ t.current_move_attempts = s.current_move_attempts + 1
                     /\ t.board = s.board
                     /\ t.move_index = s.move_index
                     /\ t.score_total = s.score_total
                ELSE /\ last'.outcome = OK
                     /\ last'.result.correct = TRUE
                     /\ t.score_total = s.score_total
                     /\ t.board.stack = Append(s.board.stack, m)
                     /\ t.move_index = s.move_index + 1
                     /\ t.precomputed_ply_index = s.precomputed_ply_index + 1
                     /\ t.current_move_attempts = 0
      ]_vars

\* C5: on a Playing session with a script, the user to move and an expected
\* move m, make_move(m) as the first attempt returns correct = true with
\* leela_move = m, adds one to score_total and to move_index and leaves the
\* retry count at 0.
C5_CorrectGuess ==
    [][\A sid \in SessionIds : \A move_str \in UciMoves :
         LET s == sessions[sid]
             t == sessions'[sid]
         IN  (/\ s.status = PLAYING /\ HasScript(s) /\ UserToMove(s)
              /\ move_str = ExpectedOf(s)
              /\ s.current_move_attempts = 0
              /\ MakeMove(sid, move_str, FALSE))
             => /\ last'.outcome = OK
                /\ last'.result.correct = TRUE
                /\ last'.result.leela_move = move_str
                /\ t.score_total = s.score_total + 1
                /\ t.move_index = s.move_index + 1
                /\ t.current_move_attempts = 0
      ]_vars

\* the position of gid in the available list, if any
Listed(gid) == \E i \in 1..Len(ids) : ids[i] = gid

\* C6: when a matched or auto-played user move, or a scripted reply, leaves a
\* board that is over, that call sets the status to Finished and consumes the
\* session's script; and no assign_game() returns a consumed id.
C6_TerminalFinishesAndConsumes ==
    /\ [][\A sid \in SessionIds :
            LET s == sessions[sid]
                t == sessions'[sid]
            IN  (/\ last'.outcome = OK
                 /\ Len(t.board.stack) = Len(s.board.stack) + 1
                 /\ is_game_over(t.board)
                 /\ \/ \E move_str \in UciMoves : MakeMove(sid, move_str, FALSE)
                    \/ MakeMaiaMove(sid))
                => /\ t.status = FINISHED
                   /\ s.precomputed_game_id \in consumed'
                   /\ s.precomputed_game_id \notin DOMAIN games'
                   /\ \A i \in 1..Len(ids') : ids'[i] # s.precomputed_game_id
         ]_vars
    /\ [](last.op = "assign_game" => last.ret \notin consumed)

\* a matched move ended the game: the session is Finished, its script consumed
C6_Witness ==
    \E sid \in SessionIds :
        /\ last.op = "make_move" /\ last.sid = sid
        /\ last.result.message = "Correct"
        /\ is_game_over(sessions[sid].board)
        /\ sessions[sid].status = FINISHED
        /\ sessions[sid].precomputed_game_id \in consumed

\* C7: a Finished session that has a scripted game has had it consumed: the id
\* is neither in the index nor in the available list.
C7_FinishedImpliesConsumed ==
    \A sid \in SessionIds :
        (sessions[sid].status = FINISHED /\ HasScript(sessions[sid]))
        => /\ sessions[sid].precomputed_game_id \notin DOMAIN games
           /\ ~Listed(sessions[sid].precomputed_game_id)

\* C8: the status only changes from Playing to Finished; on a Finished session
\* make_move raises GameFinishedError, make_maia_move returns None, and no
\* call changes any field of the session.
\* (A step that writes a make_move record to `last` is a make_move call.)
C8_FinishedIsFinal ==
    [][\A sid \in SessionIds :
         LET s == sessions[sid]
             t == sessions'[sid]
         IN  /\ s.status # t.status => (s.status = PLAYING /\ t.status = FINISHED)
             /\ s.status = FINISHED => t = s
             /\ (/\ s.status = FINISHED
                 /\ last'.op = "make_move" /\ last'.sid = sid
                 /\ last' # last)
                => last'.outcome = "GameFinishedError"
             /\ (/\ s.status = FINISHED
                 /\ last'.op = "make_maia_move" /\ last'.sid = sid
                 /\ MakeMaiaMove(sid))
                => (last'.outcome = OK /\ last'.ret = None)
      ]_vars

\* make_move was refused on a session that is Finished
C8_Witness ==
    \E sid \in SessionIds :
        /\ sessions[sid].status = FINISHED
        /\ last.op = "make_move" /\ last.sid = sid
        /\ last.outcome = "GameFinishedError"

\* C9 as stated: make_move with a well-formed move code that is illegal in the
\* position raises IllegalMoveError, changes nothing and does not save.
C9_Original ==
    [][last'.op = "make_move"
       => \A sid \in SessionIds : \A move_str \in UciMoves : \A cv \in BOOLEAN :
            (/\ move_str \notin legal_moves(sessions[sid].board)
             /\ MakeMove(sid, move_str, cv))
            => /\ last'.outcome = "IllegalMoveError"
               /\ sessions' = sessions
               /\ last'.saves = 0
      ]_vars

\* C9, amended: on a Playing session, make_move with a well-formed move code
\* that is illegal in the position raises IllegalMoveError, changes nothing and
\* does not save.
C9_IllegalMoveRejected ==
    [][\/ /\ last'.outcome = "IllegalMoveError"
          /\ sessions' = sessions
          /\ last'.saves = 0
       \/ \A sid \in SessionIds : \A move_str \in UciMoves : \A cv \in BOOLEAN :
             ~ /\ last'.op = "make_move"
               /\ sessions[sid].status = PLAYING
               /\ move_str \notin legal_moves(sessions[sid].board)
               /\ MakeMove(sid, move_str, cv)
      ]_vars

\* an illegal move was refused on the user's turn of a Playing session
C9_Witness ==
    \E sid \in SessionIds :
        /\ sessions[sid].status = PLAYING
        /\ UserToMove(sessions[sid])
        /\ last.op = "make_move" /\ last.sid = sid
        /\ last.outcome = "IllegalMoveError"
        /\ last.ret = "Illegal move in current position"

\* C10: on a Playing session created while no script was available, make_move
\* with a legal move on the user's turn returns correct = false with the
\* no-oracle message, adds one to the retry count, saves, and changes nothing
\* else; it does not raise.
C10_NoOracleIsGraded ==
    [][\A sid \in SessionIds : \A move_str \in UciMoves :
         LET s == sessions[sid]
             t == sessions'[sid]
         IN  (/\ s.status = PLAYING
              /\ s.precomputed_game_id = Unset
              /\ UserToMove(s)
              /\ move_str \in legal_moves(s.board)
              /\ MakeMove(sid, move_str, FALSE))
             => /\ last'.outcome = OK
                /\ last'.result.correct = FALSE
                /\ last'.result.message = "No precomputed game available"
                /\ last'.saves = 1
                /\ t = [s EXCEPT !.current_move_attempts = @ + 1]
      ]_vars

\* C11: create_session that is assigned a script recording the user's side as
\* Black makes the session Black with flip = true whatever colour was asked
\* for, and from the standard start position it has played the script's move
\* at ply 0 before the session is saved: move_index 1, script ply 1, Black to
\* move.
C11_BlackScriptOpens ==
    [][\A player_color \in ColorInputs : \A custom_fen \in FenInputs :
         LET gid == last'.ret
             t == sessions'[Len(sessions')]
         IN  (/\ last'.op = "create_session"
              /\ gid # None
              /\ get_leela_color(games', gid) = BLACK
              /\ CreateSession(player_color, custom_fen))
             => /\ t.player_color = BLACK
                /\ t.flip = TRUE
                /\ t.precomputed_game_id = gid
                /\ last'.saves = 1
                /\ BoardFromFen(custom_fen) = StartBoard
                   => /\ t.board.stack = <<get_expected(games', gid, 0)>>
                      /\ t.board.turn = BLACK
                      /\ t.move_index = 1
                      /\ t.precomputed_ply_index = 1
      ]_vars

\* a session made from a Black script at the start position, opening move played
C11_Witness ==
    /\ last.op = "create_session"
    /\ last.ret # None
    /\ get_leela_color(games, last.ret) = BLACK
    /\ sessions[last.sid].player_color = BLACK
    /\ sessions[last.sid].flip
    /\ sessions[last.sid].move_index = 1
    /\ sessions[last.sid].precomputed_ply_index = 1
    /\ sessions[last.sid].board.turn = BLACK
    /\ Len(sessions[last.sid].board.stack) = 1

\* C12: create_session that is assigned no script gives the session the colour
\* the caller asked for (White when none was asked for), flip = (that colour is
\* Black), status Playing, score_total 0 and move_index 0, and saves it once.
C12_NoScriptUsesRequestedColor ==
    [][\A player_color \in ColorInputs : \A custom_fen \in FenInputs :
         LET t == sessions'[Len(sessions')]
             requested == IF player_color = None THEN WHITE ELSE player_color
         IN  (/\ last'.op = "create_session"
              /\ last'.ret = None
              /\ CreateSession(player_color, custom_fen))
             => /\ t.player_color = requested
                /\ t.flip = (requested = BLACK)
                /\ t.status = PLAYING
                /\ t.score_total = 0
                /\ t.move_index = 0
                /\ last'.saves = 1
      ]_vars

\* C13 as stated: make_move with client_validated = true and a legal move on
\* the user's turn pushes the move, adds one to move_index and to score_total,
\* sets the status to Finished iff the board is then over, saves once and
\* returns correct = true with player_move the submitted move.
C13_Original ==
    [][\A sid \in SessionIds : \A move_str \in UciMoves :
         LET s == sessions[sid]
             t == sessions'[sid]
         IN  (/\ UserToMove(s)
              /\ move_str \in legal_moves(s.board)
              /\ MakeMove(sid, move_str, TRUE))
             => /\ last'.outcome = OK
                /\ t.board.stack = Append(s.board.stack, move_str)
                /\ t.move_index = s.move_index + 1
                /\ t.score_total = s.score_total + 1
                /\ (t.status = FINISHED) <=> is_game_over(t.board)
                /\ last'.saves = 1
                /\ last'.result.correct = TRUE
                /\ last'.result.player_move = move_str
      ]_vars

\* C13, amended: the same on a Playing session, whatever the script expects.
C13_ClientValidated ==
    [][\A sid \in SessionIds : \A move_str \in UciMoves :
         LET s == sessions[sid]
             t == sessions'[sid]
         IN  (/\ s.status = PLAYING
              /\ UserToMove(s)
              /\ move_str \in legal_moves(s.board)
              /\ MakeMove(sid, move_str, TRUE))
             => /\ last'.outcome = OK
                /\ t.board.stack = Append(s.board.stack, move_str)
                /\ t.move_index = s.move_index + 1
                /\ t.score_total = s.score_total + 1
                /\ (t.status = FINISHED) <=> is_game_over(t.board)
                /\ t.status = PLAYING <=> ~is_game_over(t.board)
                /\ last'.saves = 1
                /\ last'.result.correct = TRUE
                /\ last'.result.player_move = move_str
      ]_vars

\* a client-validated move that the script did not expect was accepted
C13_Witness ==
    \E sid \in SessionIds :
        /\ last.op = "make_move" /\ last.sid = sid
        /\ last.result.message = "Move accepted"
        /\ last.result.correct
        /\ HasScript(sessions[sid])
        /\ sessions[sid].precomputed_ply_index = 0
        /\ sessions[sid].board.stack # << >>
        /\ sessions[sid].score_total = 1
        /\ last.result.player_move # ExpectedOf(sessions[sid])

\* C14: make_maia_move on a Playing session whose board is not over and whose
\* script has no move at the script ply sets the status to Finished, consumes
\* the script, clears the association (game id none, script ply 0), saves,
\* returns None and leaves the board and move_index as they are.
C14_ExhaustedScriptFinishes ==
    [][\A sid \in SessionIds :
         LET s == sessions[sid]
             t == sessions'[sid]
         IN  (/\ s.status = PLAYING
              /\ ~is_game_over(s.board)
              /\ HasScript(s)
              /\ ExpectedOf(s) = None
              /\ MakeMaiaMove(sid))
             => /\ last'.outcome = OK
                /\ last'.ret = None
                /\ last'.saves = 1
                /\ t.status = FINISHED
                /\ s.precomputed_game_id \notin DOMAIN games'
                /\ \A i \in 1..Len(ids') : ids'[i] # s.precomputed_game_id
                /\ s.precomputed_game_id \in DOMAIN games
                   => s.precomputed_game_id \in consumed'
                /\ t.precomputed_game_id = None
                /\ t.precomputed_ply_index = 0
                /\ t.board = s.board
                /\ t.move_index = s.move_index
                /\ t.score_total = s.score_total
      ]_vars

\* a session that played its script to the end was finished by make_maia_move
\* on a board that is not over, and its script was consumed
C14_Witness ==
    \E sid \in SessionIds :
        /\ last.op = "make_maia_move" /\ last.sid = sid
        /\ last.ret = None /\ last.saves = 1
        /\ sessions[sid].status = FINISHED
        /\ ~is_game_over(sessions[sid].board)
        /\ sessions[sid].precomputed_game_id = None
        /\ sessions[sid].move_index = 2
        /\ "u2" \in consumed

\* C15: make_maia_move never changes score_total or the retry count, on any of
\* its paths (not Playing, board over, script exhausted, reply applied).
C15_MaiaLeavesScoreAndRetries ==
    [][\A sid \in SessionIds :
         (last'.op = "make_maia_move" /\ MakeMaiaMove(sid))
         => /\ sessions'[sid].score_total = sessions[sid].score_total
            /\ sessions'[sid].current_move_attempts = sessions[sid].current_move_attempts
      ]_vars

\* a scripted reply was applied to a session that has a score and wrong attempts
C15_Witness ==
    \E sid \in SessionIds :
        /\ last.op = "make_maia_move" /\ last.sid = sid
        /\ last.ret \in UciMoves
        /\ sessions[sid].score_total = 1
        /\ sessions[sid].current_move_attempts > 0
        /\ sessions[sid].move_index = 2

\* C16: make_maia_move on a Playing session whose board is not over returns a
\* move code, adds one to move_index and saves the session once.
C16_MaiaReturnsMove ==
    [][\A sid \in SessionIds :
         LET s == sessions[sid]
             t == sessions'[sid]
         IN  (/\ s.status = PLAYING
              /\ ~is_game_over(s.board)
              /\ MakeMaiaMove(sid))
             => /\ last'.outcome = OK
                /\ last'.ret \in UciMoves
                /\ t.move_index = s.move_index + 1
                /\ last'.saves = 1
      ]_vars

\* C17: has_games() is true iff the available list is non-empty after a fresh
\* rescan of the script directories; in particular it is true when the index
\* is empty and a valid file that is not yet indexed is on disk.
C17_HasGamesRescans ==
    has_games <=> (load_all(CurRepo, files).ids # << >>)

\* some file the generator wrote is valid, on disk and not yet indexed
SeedWaiting ==
    \E p \in appeared \cap files : FileMoves(p) # << >> /\ p \notin loaded_paths

\* C18: once every indexed game was consumed and a valid file was written to
\* the user directory afterwards, create_session is assigned a scripted game
\* again, without a restart.
C18_ReplenishmentVisible ==
    [][\A player_color \in ColorInputs : \A custom_fen \in FenInputs :
         (/\ last'.op = "create_session"
          /\ ids = << >>
          /\ consumed # {}
          /\ SeedWaiting
          /\ CreateSession(player_color, custom_fen))
         => /\ last'.ret # None
            /\ sessions'[Len(sessions')].precomputed_game_id = last'.ret
      ]_vars

\* C19: consume_game(id) for an indexed id takes id out of the available list
\* and the index and returns True whether or not the file could be deleted,
\* and id is not assigned afterwards; only a file under the user directory is
\* deleted, bundled files stay on disk; consume_game on an id that is not
\* indexed (a second consume included) returns False and changes nothing.
C19_ConsumeGame ==
    /\ [][\A gid \in Stems :
            ConsumeGame(gid)
            => IF gid \in DOMAIN games
               THEN /\ last'.outcome = OK /\ last'.ret = "True"
                    /\ gid \notin DOMAIN games'
                    /\ \A i \in 1..Len(ids') : ids'[i] # gid
                    /\ gid \notin DOMAIN (load_all(CurRepo, files).games)'
                    /\ files' \subseteq files
                    /\ files \ files' \subseteq {paths[gid]}
                    /\ \A p \in files \ files' : p[1] = UserDir
               ELSE /\ last'.outcome = OK /\ last'.ret = "False"
                    /\ UNCHANGED <<files, repoVars, consumed>>
         ]_vars
    /\ [](last.op = "assign_game" /\ last.ret # None
           => last.ret \notin consumed /\ Listed(last.ret))

\* consume_game returned True for a user-generated game whose file could not
\* be deleted, and False when called for the same id again
C19_Witness ==
    /\ last.op = "consume_game"
    /\ last.ret = "False"
    /\ "u1" \in consumed
    /\ <<UserDir, "u1">> \in files
    /\ <<UserDir, "u1">> \notin appeared

\* C20: assign_game and consume_game run by concurrent threads exclude each
\* other: no two threads are inside `with self._lock` at once; the id
\* assign_game has selected is in the available list when it is selected and
\* until the call returns; assign_game returns None or an id whose
\* consume_game has not completed; and it never fails with an index out of
\* range or a division by zero.
C20_MutualExclusion ==
    /\ \A t \in Threads : \A u \in Threads :
           (t # u) => ~(InCritical(t) /\ InCritical(u))
    /\ \A t \in Threads : InCritical(t) => lock = t
    /\ \A t \in Threads :
           threads[t].pc \in {"assign_incr", "assign_return"}
           => Listed(threads[t].gid) /\ threads[t].gid \notin consumed
    /\ last.op = "assign_game"
       => /\ last.outcome = OK
          /\ last.ret = None \/ last.ret \notin consumed

\* one thread has selected an id inside assign_game while another, called to
\* consume that very id, waits for the lock
C20_Witness ==
    \E t \in Threads : \E u \in Threads :
        /\ t # u
        /\ threads[t].pc = "assign_incr"
        /\ threads[u].pc = "consume_lock"
        /\ threads[u].gid = threads[t].gid
        /\ lock = t

(***************************************************************************)
(* Properties of the readers and of the rotation                           *)
(***************************************************************************)
\* C21: a reader call that runs while consume_game calls are under way never
\* raises; it returns the value the entry of its id had when it was called
\* or None (0 for game_length): the value when the entry is still there at
\* the return, None (0) when the id was unknown or consumed before the call.
C21_ReadersTolerateConsume ==
    [][(reader.pc = "use" /\ ReaderReturn) =>
          LET v == reader_value(reader.op, reader.known, reader.gid, reader.ply)
              none == reader_value(reader.op, << >>, reader.gid, reader.ply)
          IN  /\ last'.outcome = OK
              /\ last'.ret = v \/ last'.ret = none
              /\ reader.gid \in DOMAIN games => last'.ret = v
              /\ reader.gid \notin DOMAIN reader.known => last'.ret = none]_vars

\* a reader has returned a move of a script that consume_game had popped
\* after the reader fetched it
C21_Witness ==
    /\ reader.pc = "idle"
    /\ last.op = "get_expected"
    /\ last.outcome = OK
    /\ last.ret \in UciMoves
    /\ reader.gid \notin DOMAIN games

\* C22: between two assign_game results that return the same id, every
\* other id that has been in the available list all the while is returned
\* at least once, also when consume_game calls come in between.
C22_NoStarvation ==
    [][(/\ pending.on
        /\ last'.op = "assign_game"
        /\ last'.ret # None
        /\ last'.ret \in DOMAIN pending.since
        /\ AssignGame)
          => pending.since[last'.ret] = {}]_vars

(***************************************************************************)
(* Properties of the session store                                         *)
(***************************************************************************)
\* C23: one cleanup_expired(T) pass removes exactly the sessions whose last
\* save_session or get_session was more than T seconds before the pass and
\* returns how many it removed; the others, get_all_sessions calls in
\* between or not, stay as they were.
C23_ExpirySweep ==
    [][\A T \in 0..MaxTime :
          (last'.op = "cleanup_expired" /\ CleanupExpired(T)) =>
              LET old == {sid \in StoredIds : now - touched[sid] > T}
              IN  /\ last'.ret = Cardinality(old)
                  /\ store_sessions' =
                         SelectSeq(store_sessions, LAMBDA s : s.id \notin old)
                  /\ \A sid \in StoredIds \ old : touched'[sid] = touched[sid]]_vars

\* a pass has removed one session and left in the store another one that
\* was last accessed a second before
C23_Witness ==
    /\ last.op = "cleanup_expired"
    /\ last.ret = 1
    /\ \E sid \in StoredIds : now - touched[sid] = 1 /\ access_times[sid] = touched[sid]

\* C24: a session that is stored and from some time on neither saved nor
\* fetched is removed from the store at some later time.
C24_IdleSessionsRemoved ==
    \A sid \in StoreIds :
        \/ []<><<(\E s \in SessionInputs : s.id = sid /\ SaveSession(s))
                 \/ GetSession(sid)>>_vars
        \/ (sid \in StoredIds) ~> (sid \notin StoredIds)

\* C25: save_session(s) makes s the one item of s.id, whether the id was
\* stored before or not; get_session returns the item stored under the id,
\* or None and no new item for an id not stored; delete_session leaves no
\* item of the id and nothing changed for an id not stored; get_all_sessions
\* lists every stored item once.
C25_StoreRoundTrip ==
    [][/\ \A s \in SessionInputs :
             (last'.op = "save_session" /\ SaveSession(s)) =>
                 /\ session_of(store_sessions', s.id) = s.data
                 /\ Cardinality({k \in 1..Len(store_sessions') :
                                    store_sessions'[k].id = s.id}) = 1
       /\ \A sid \in StoreIds :
             (last'.op = "get_session" /\ GetSession(sid)) =>
                 /\ store_sessions' = store_sessions
                 /\ sid \in StoredIds =>
                        \E k \in 1..Len(store_sessions) :
                            /\ store_sessions[k].id = sid
                            /\ last'.ret = store_sessions[k].data
                 /\ sid \notin StoredIds =>
                        last'.ret = None /\ access_times' = access_times
       /\ \A sid \in StoreIds :
             (last'.op = "delete_session" /\ DeleteSession(sid)) =>
                 /\ session_of(store_sessions', sid) = None
                 /\ sid \notin StoredIds => UNCHANGED storeVars
       /\ (last'.op = "get_all_sessions" /\ GetAllSessions) =>
              /\ Len(last'.ret) = Cardinality(StoredIds)
              /\ \A sid \in StoredIds :
                     \E k \in 1..Len(last'.ret) :
                         last'.ret[k] = session_of(store_sessions, sid)]_vars

\* a stored session has been saved again with other contents and then
\* listed: the store holds two sessions, the overwritten one first
C25_Witness ==
    /\ last.op = "get_all_sessions"
    /\ last.ret = <<"v2", "v1">>
    /\ store_sessions = <<[id |-> "a", data |-> "v2"], [id |-> "b", data |-> "v1"]>>

(***************************************************************************)
(* Properties of the completed-game log                                    *)
(***************************************************************************)
\* C26: a save_game that succeeds leaves the stored list as it was with the
\* new entry added at its end; a save_game that fails with DataError leaves
\* the stored file as it was; and the stored list loses entries only in
\* clear_history.
C26_AppendOnly ==
    [][/\ (last'.op = "save_game" /\ last'.outcome = OK /\ SaveWrite(1)) =>
              /\ history_file'.kind = "list"
              /\ history_file'.entries =
                     Append(load_history(history_file), last'.ret)
       /\ (/\ last'.op = "save_game"
           /\ last'.outcome = "DataError"
           /\ SaveWrite(1) \/ \E e \in EntryInputs : SaveLoad(1, e))
              => history_file' = history_file
       /\ (\E k \in 1..Len(history_file.entries) :
               \/ k > Len(history_file'.entries)
               \/ history_file'.entries[k] # history_file.entries[k])
              => ClearHistory]_vars

\* C27: the call that turns a session from Playing to Finished adds one
\* entry to the completed-game log.
C27_FinishAppendsEntry ==
    [][\A sid \in SessionIds :
          (sessions[sid].status = PLAYING /\ sessions'[sid].status = FINISHED)
              => Len(load_history(history_file')) =
                     Len(load_history(history_file)) + 1]_vars

C29_NeverRunsDry ==
    \A n \in 0..Cardinality(Catalog) :
        (/\ gen.pc # "off"
         /\ Len(load_all(CurRepo, files).ids) < gen.max_seeds
         /\ Cardinality({p \in appeared : FileMoves(p) # << >>}) = n
         /\ \E p \in Catalog : /\ p[1] = UserDir
                               /\ FileMoves(p) # << >>
                               /\ \A q \in files \cup loaded_paths : q[2] # p[2])
        ~> (\/ Cardinality({p \in appeared : FileMoves(p) # << >>}) > n
            \/ ~ \E p \in Catalog : /\ p[1] = UserDir
                                    /\ FileMoves(p) # << >>
                                    /\ \A q \in files \cup loaded_paths : q[2] # p[2])

(***************************************************************************)
(* Properties of `lcstudy up`                                              *)
(***************************************************************************)
\* C30: in a run of cmd_up with --no-seeds, whenever the web-app module has
\* been imported or the settings have been read, LCSTUDY_DISABLE_SEEDS is
\* "1" in the environment, and the settings the web-app module saw and the
\* settings singleton have enable_seed_generator = False, whatever the two
\* seed variables held when the process started.
C30_NoSeedsBeforeImport ==
    (cli.no_seeds /\ (cli.webapp.imported \/ cli.settings.read)) =>
        /\ "LCSTUDY_DISABLE_SEEDS" \in DOMAIN cli.environ
        /\ cli.environ["LCSTUDY_DISABLE_SEEDS"] = "1"
        /\ cli.webapp.imported => ~cli.webapp.enable_seed_generator
        /\ cli.settings.read => ~cli.settings.enable_seed_generator

\* cmd_up has run to the serving of the app under --no-seeds in a process
\* that was started with the enable flag set
C30_Witness ==
    /\ cli.no_seeds
    /\ cli.webapp.imported
    /\ ~cli.webapp.enable_seed_generator
    /\ "LCSTUDY_ENABLE_SEEDS" \in DOMAIN cli.environ
    /\ cli.environ["LCSTUDY_ENABLE_SEEDS"] = "1"
    /\ cli.pc = "serving"

\* C31: whenever a call advances the ply of a session (move_index grows: a
\* matched guess, an auto-played move, a client_validated move, an opponent
\* reply), the session's retry count is 0 after the call.
C31_RetryResetOnAdvance ==
    [][\A sid \in SessionIds :
         sessions'[sid].move_index > sessions[sid].move_index
         => sessions'[sid].current_move_attempts = 0
      ]_vars

\* C32: score_total never decreases; a call raises it by exactly one when it is
\* a make_move that returns a matched guess ("Correct") or a client_validated
\* move ("Move accepted"), and by nothing otherwise (wrong guess, auto-played
\* move, rejected move, opponent reply).  Every unit comes with one move pushed
\* on the user's turn, so score_total never exceeds the plies applied.
C32_ScoreMonotone ==
    /\ [][\A sid \in SessionIds :
            LET s == sessions[sid]
                t == sessions'[sid]
                scored == /\ last'.op = "make_move" /\ last'.sid = sid
                          /\ last'.outcome = OK
                          /\ last'.result.message \in {"Correct", "Move accepted"}
                          /\ t # s
            IN  /\ t.score_total \in {s.score_total, s.score_total + 1}
                /\ scored <=> t.score_total = s.score_total + 1
                /\ t.score_total = s.score_total + 1
                   => /\ s.board.turn = s.player_color
                      /\ Len(t.board.stack) = Len(s.board.stack) + 1
                      /\ t.move_index = s.move_index + 1
         ]_vars
    /\ [](\A sid \in SessionIds :
            /\ sessions[sid].score_total <= sessions[sid].move_index
            /\ sessions[sid].score_total <= Len(sessions[sid].board.stack))

\* two guesses were matched and an opponent reply lies between them
C32_Witness ==
    \E sid \in SessionIds :
        /\ sessions[sid].score_total = 2
        /\ sessions[sid].move_index = 3
        /\ last.op = "make_move" /\ last.sid = sid
        /\ last.result.message = "Correct"

\* C33: in every reachable state of a session flip = (player_color is Black),
\* and no call changes flip or player_color of an existing session.
C33_FlipFixed ==
    /\ [](\A sid \in SessionIds :
            sessions[sid].flip = (sessions[sid].player_color = BLACK))
    /\ [][\A sid \in SessionIds :
            /\ sessions'[sid].flip = sessions[sid].flip
            /\ sessions'[sid].player_color = sessions[sid].player_color
         ]_vars

\* a session that plays Black, with the board turned, after a graded guess and
\* an opponent reply
C33_Witness ==
    \E sid \in SessionIds :
        /\ sessions[sid].player_color = BLACK
        /\ sessions[sid].flip
        /\ sessions[sid].score_total = 1
        /\ last.op = "make_maia_move" /\ last.sid = sid /\ last.ret # None

\* C34: a rescan (_load_all, as assign_game runs it) over an unchanged
\* directory is idempotent: scanning again after a scan changes neither the
\* index nor the available-id list nor its order; the list never holds an id
\* twice, also when a stem exists in both directories; a file without moves is
\* never indexed.
C34_RescanIdempotent ==
    LET once == load_all(CurRepo, files)
        twice == load_all(once, files)
        Clean(r) ==
            /\ \A i, j \in 1..Len(r.ids) : r.ids[i] = r.ids[j] => i = j
            /\ {r.ids[i] : i \in 1..Len(r.ids)} = DOMAIN r.games
            /\ \A gid \in DOMAIN r.games :
                 /\ r.games[gid].moves_uci # << >>
                 /\ FileMoves(r.paths[gid]) # << >>
    IN  /\ twice = once
        /\ Clean(CurRepo)
        /\ Clean(once)
        /\ last.op = "assign_game" => once = CurRepo

\* assign_game has rescanned a directory that holds the stem s1 twice and a
\* file without moves, after another file was added
C34_Witness ==
    /\ last.op = "assign_game"
    /\ {<<SeedsDir, "s1">>, <<UserDir, "s1">>, <<UserDir, "u3">>} \subseteq files
    /\ appeared # {}
    /\ Len(ids) >= 2

\* C35: make_move tests in this order, before it changes anything: a session
\* that is not Playing gives GameFinishedError whatever the move; else a text
\* that is no move code gives IllegalMoveError "Invalid move format"; else a
\* move made when the side to move is not the user's gives IllegalMoveError
\* "Not your turn", with client_validated too; else a move that is not legal
\* on the board gives IllegalMoveError.  In all four cases the session is
\* unchanged and not saved.
C35_ChecksOrdered ==
    [][last'.op = "make_move"
       => \A sid \in SessionIds : \A move_str \in MoveInputs : \A cv \in BOOLEAN :
            LET s == sessions[sid]
                Refused(exception, message) ==
                    /\ last'.outcome = exception
                    /\ last'.ret = message
                    /\ last'.saves = 0
                    /\ sessions' = sessions
                \* what the claim says of a call with these arguments
                AsClaimed ==
                    IF s.status = FINISHED
                    THEN Refused("GameFinishedError", "Game is already finished")
                    ELSE IF move_str = BadUci
                    THEN Refused("IllegalMoveError", "Invalid move format")
                    ELSE IF s.board.turn # s.player_color
                    THEN Refused("IllegalMoveError", "Not your turn")
                    ELSE IF \/ s.board.over
                            \/ s.board.turn = WHITE /\ move_str \notin WhiteMoves
                            \/ s.board.turn = BLACK /\ move_str \notin BlackMoves
                    THEN Refused("IllegalMoveError",
                                 "Illegal move in current position")
                    ELSE /\ last'.outcome # "GameFinishedError"
                         /\ last'.outcome # "IllegalMoveError"
            IN  AsClaimed \/ ~MakeMove(sid, move_str, cv)
      ]_vars

\* a move was refused on a Playing session because the opponent is to move
C35_Witness ==
    \E sid \in SessionIds :
        /\ last.op = "make_move" /\ last.sid = sid
        /\ last.outcome = "IllegalMoveError" /\ last.ret = "Not your turn"
        /\ sessions[sid].status = PLAYING
        /\ sessions[sid].board.stack # << >>

\* C36: for a session that has an assigned script and a board played from the
\* standard start position (White moved first and the sides alternated), the
\* script ply equals move_index in every reachable state, after any mix of
\* make_move (with or without client_validated) and make_maia_move.
C36_CursorInStep ==
    \A sid \in SessionIds :
        LET s == sessions[sid]
            b == s.board
            FromStart ==
                /\ \A i \in 1..Len(b.stack) :
                     b.stack[i] \in (IF i % 2 = 1 THEN WhiteMoves ELSE BlackMoves)
                /\ b.turn = (IF Len(b.stack) % 2 = 0 THEN WHITE ELSE BLACK)
                /\ b.stack = << >> => ~b.over
        IN  (s.precomputed_game_id \notin {Unset, None} /\ FromStart)
            => s.precomputed_ply_index = s.move_index

\* C37: every move a call pushes onto a session's board (the opening move of
\* create_session, the auto-played move, the matched move, the scripted reply
\* of make_maia_move) is legal in the position it is applied to, and so is
\* played by the side to move.
C37_PushedMovesLegal ==
    [][/\ \A sid \in SessionIds :
            LET s == sessions[sid]
                t == sessions'[sid]
            IN  Len(t.board.stack) = Len(s.board.stack) + 1
                => t.board.stack[Len(t.board.stack)] \in legal_moves(s.board)
       /\ \A sid \in (1..Len(sessions')) \ SessionIds :
            LET t == sessions'[sid]
            IN  t.board.stack # << >>
                => /\ Len(t.board.stack) = 1
                   /\ t.board.stack[1] \in WhiteMoves
                   /\ t.board.turn = BLACK
      ]_vars

\* C38: a Playing session with an assigned script is never stuck on the user's
\* turn: a legal submission without client_validated that is graded as the
\* tenth (or a later) one on its ply advances the ply or finishes the session,
\* also when the script has no move at the current ply and when another
\* holder has consumed the script.
C38_NeverStuck ==
    [][\A sid \in SessionIds :
         LET s == sessions[sid]
             t == sessions'[sid]
         IN  (/\ last'.op = "make_move" /\ last'.sid = sid
              /\ last'.outcome = OK
              /\ last'.result.message # "Move accepted"
              /\ s.status = PLAYING
              /\ s.precomputed_game_id \notin {Unset, None}
              /\ s.current_move_attempts >= AutoPlayThreshold - 1
              /\ t # s)
             => \/ t.move_index > s.move_index
                \/ t.status = FINISHED
      ]_vars

\* C39: a session removed from the store stays removed: when a grading
\* request fetched the session, cleanup_expired or delete_session removed it,
\* and the request then saves it, the session is still absent from the store
\* (so no later get_session returns it and get_all_sessions does not list it).
C39_RemovedStaysRemoved ==
    [][\A data \in {"v1", "v2"} :
         (/\ grader.pc = "fetched"
          /\ grader.session.id \notin StoredIds
          /\ GradeSave(data))
         => session_of(store_sessions', grader.session.id) = None
      ]_vars

\* C40: no entry is lost when save_game calls overlap: a save_game that
\* returns leaves in the file every entry that was stored when it wrote,
\* followed by its own, so after two overlapping calls that both return the
\* list holds both entries and every earlier one.
C40_NoLostEntry ==
    [][\A t \in Writers :
         (/\ writers[t].pc = "write"
          /\ last'.op = "save_game" /\ last'.outcome = OK
          /\ SaveWrite(t))
         => /\ history_file'.kind = "list"
            /\ history_file'.entries =
                   Append(load_history(history_file), writers[t].entry)
      ]_vars

====
